---- MODULE Spec2Model ----
(***************************************************************************)
(* Model of the pia-operator reconciliation engine: the ServiceAccount     *)
(* reconciler (internal/controller), the AWS Pod Identity client           *)
(* (pkg/awsclient) and the error handler (pkg/errors).                     *)
(*                                                                         *)
(* One ServiceAccount, SAKey, is managed.  The EKS API also holds one      *)
(* association of another ServiceAccount, so that list-and-scan has        *)
(* something to filter.  A reconcile is one atomic step (the dispatcher    *)
(* serialises triggers per key and every remote call is synchronous); the  *)
(* failure of a remote call is an input of the step: at most one call of   *)
(* a reconcile fails, because every failure ends the reconcile before the  *)
(* next remote call.                                                       *)
(***************************************************************************)
EXTENDS Integers, Sequences, FiniteSets, TLC

VARIABLES
    sa,           \* the ServiceAccount as persisted in the cluster
    remote,       \* the associations held by the EKS API
    nextId,       \* the id the EKS API hands out at the next create
    retryCounts,  \* ErrorHandler.retryCounts, key -> count
    queued,       \* the dispatcher holds a trigger for SAKey
    last,         \* what the latest step was; a reconcile records its run
    errorHandler, \* ServiceAccountReconciler.errorHandler: 0 (nil) or a handler
    tables,       \* the retryCounts map of every handler built so far
    worker,       \* the dispatcher's workers, each inside one Reconcile
    hist,         \* what the workers' accesses to the maps have come to
    deleteFailures, \* the Transient failures of the delete of SAKey so far
    settled       \* the user makes no further change and no call fails any more

\* The variables of the workers, at rest wherever reconciles are atomic steps;
\* the count of failed deletes, kept only where the deletion's retries are
\* followed; and the end of all disturbance, which only the specifications
\* about the long run declare.
cvars == <<errorHandler, tables, worker, hist, deleteFailures, settled>>

vars == <<sa, remote, nextId, retryCounts, queued, last, errorHandler, tables,
          worker, hist, deleteFailures, settled>>

\* The number of association ids the EKS API hands out in one run.
MaxAssoc == 3

\* The largest retry count the error handler is exercised with on its own.
MaxRetryCount == 7

maxRetryAttempts == 5
baseRetryDelay == 30
maxRetryDelay == 300

SAKey == "default/app"
OtherKey == "default/other"
Keys == {SAKey, OtherKey}

\* One worker per object key: the dispatcher serialises the triggers of a key
\* and runs different keys side by side.
Workers == {"w1", "w2"}
KeyOf == [w \in Workers |-> IF w = "w1" THEN SAKey ELSE OtherKey]

\* The number of reconciles each worker runs.
MaxReconciles == 2

IdleWorker == [pc |-> "idle", op |-> "none", h |-> 0, cnt |-> 0, torn |-> FALSE,
               left |-> MaxReconciles]
NoHistory == [fatal |-> FALSE, raced |-> FALSE, expect |-> [k \in Keys |-> 0]]

\* No worker is inside a reconcile, no handler has been built lazily, no
\* delete has failed, and the user and the failures are still at work.
NoWorkers ==
    /\ errorHandler = 0
    /\ tables = <<>>
    /\ worker = [w \in Workers |-> IdleWorker]
    /\ hist = NoHistory
    /\ deleteFailures = 0
    /\ settled = FALSE

NoRole == "none"
Roles == {"A"}
AssumeRoles == {"", "T"}
\* The annotation pia-operator.eks.aws.com/tagging, as the tests name it: absent
\* or one of these values; and an annotation of no concern to the operator.
NoTagging == "absent"
TaggingValues == {"false", "true"}

\* The id of the association the other ServiceAccount owns.
ForeignID == MaxAssoc + 1
ForeignAssociation == [id |-> ForeignID, sa |-> OtherKey, role |-> "A", target |-> "", tags |-> {}]

-----------------------------------------------------------------------------
(* pkg/errors *)

\* The errors a call can return.  The first seven are the Kubernetes API
\* status reasons ClassifyError looks at, "Other" is any error that is none
\* of them (an AWS SDK error, a context error), "AssocNotFound" is the
\* client's own "Pod Identity Association not found" error.
K8sErrs == {"NotFound", "Invalid", "BadRequest", "TooManyRequests",
            "ServiceUnavailable", "Timeout", "Conflict"}
ErrKinds == K8sErrs \cup {"Other"}

\* ClassifyError taking a bad request for an unknown error.
ClassifyError_BadRequestUnknown(err) ==
    IF err = "nil" THEN "Retryable"
    ELSE IF err \in {"NotFound", "Invalid"} THEN "Permanent"
    ELSE IF err \in {"TooManyRequests", "ServiceUnavailable", "Timeout"} THEN "Transient"
    ELSE IF err = "Conflict" THEN "Retryable"
    ELSE "Transient"

ClassifyError(err) ==
    IF err = "nil" THEN "Retryable"
    ELSE IF err \in {"NotFound", "Invalid", "BadRequest"} THEN "Permanent"
    ELSE IF err \in {"TooManyRequests", "ServiceUnavailable", "Timeout"} THEN "Transient"
    ELSE IF err = "Conflict" THEN "Retryable"
    ELSE "Transient"

RECURSIVE BackoffLoop(_, _, _)
BackoffLoop(delay, i, retryCount) ==
    IF i < retryCount /\ delay < maxRetryDelay
    THEN BackoffLoop(delay * 2, i + 1, retryCount)
    ELSE delay

\* CalculateBackoff without the final cap.
CalculateBackoff_NoCap(retryCount) ==
    BackoffLoop(baseRetryDelay, 0, retryCount)

CalculateBackoff(retryCount) ==
    LET delay == BackoffLoop(baseRetryDelay, 0, retryCount)
    IN  IF delay > maxRetryDelay THEN maxRetryDelay ELSE delay

\* The table of a new handler: the map is empty, and a key it does not hold
\* reads as 0.
NewErrorHandler == [k \in Keys |-> 0]

GetRetryCount(tbl, key) == tbl[key]

\* SetRetryCount keeping one counter for all objects.
SetRetryCount_OneCounter(tbl, key, count) == [k \in DOMAIN tbl |-> count]

SetRetryCount(tbl, key, count) == [tbl EXCEPT ![key] = count]

ResetRetryCount(tbl, key) == [tbl EXCEPT ![key] = 0]

MarkSuccess(tbl, key) == ResetRetryCount(tbl, key)

\* ctrl.Result together with the error Reconcile returns beside it.
Result(requeue, after, err) == [Requeue |-> requeue, RequeueAfter |-> after, err |-> err]
EmptyResult == Result(FALSE, 0, "nil")

\* HandleError giving up at the ceiling, as HandleDeletionError does.
HandleError_GivesUpAtCeiling(tbl, key, err) ==
    IF err = "nil" THEN [res |-> EmptyResult, tbl |-> tbl]
    ELSE IF ClassifyError(err) = "Permanent" THEN [res |-> EmptyResult, tbl |-> tbl]
    ELSE IF ClassifyError(err) = "Transient" THEN
        LET retryCount == GetRetryCount(tbl, key)
        IN  IF retryCount >= maxRetryAttempts
            THEN [res |-> EmptyResult, tbl |-> tbl]
            ELSE [res |-> Result(FALSE, CalculateBackoff(retryCount), "nil"),
                  tbl |-> SetRetryCount(tbl, key, retryCount + 1)]
    ELSE [res |-> Result(TRUE, 0, "nil"), tbl |-> tbl]

\* HandleError handing a Transient error back to its caller beside the
\* result, instead of nil.
HandleError_ReturnsError(tbl, key, err) ==
    IF err = "nil" THEN [res |-> EmptyResult, tbl |-> tbl]
    ELSE IF ClassifyError(err) = "Permanent" THEN [res |-> EmptyResult, tbl |-> tbl]
    ELSE IF ClassifyError(err) = "Transient" THEN
        LET retryCount == GetRetryCount(tbl, key)
        IN  IF retryCount >= maxRetryAttempts
            THEN [res |-> Result(FALSE, maxRetryDelay, err), tbl |-> tbl]
            ELSE [res |-> Result(FALSE, CalculateBackoff(retryCount), err),
                  tbl |-> SetRetryCount(tbl, key, retryCount + 1)]
    ELSE [res |-> Result(TRUE, 0, "nil"), tbl |-> tbl]

\* HandleError counting every Transient failure, also past the ceiling.
HandleError_CountsPastCeiling(tbl, key, err) ==
    IF err = "nil" THEN [res |-> EmptyResult, tbl |-> tbl]
    ELSE IF ClassifyError(err) = "Permanent" THEN [res |-> EmptyResult, tbl |-> tbl]
    ELSE IF ClassifyError(err) = "Transient" THEN
        LET retryCount == GetRetryCount(tbl, key)
        IN  [res |-> Result(FALSE, CalculateBackoff(retryCount), "nil"),
             tbl |-> SetRetryCount(tbl, key, retryCount + 1)]
    ELSE [res |-> Result(TRUE, 0, "nil"), tbl |-> tbl]

HandleError(tbl, key, err) ==
    IF err = "nil" THEN [res |-> EmptyResult, tbl |-> tbl]
    ELSE IF ClassifyError(err) = "Permanent" THEN [res |-> EmptyResult, tbl |-> tbl]
    ELSE IF ClassifyError(err) = "Transient" THEN
        LET retryCount == GetRetryCount(tbl, key)
        IN  IF retryCount >= maxRetryAttempts
            THEN [res |-> Result(FALSE, maxRetryDelay, "nil"), tbl |-> tbl]
            ELSE [res |-> Result(FALSE, CalculateBackoff(retryCount), "nil"),
                  tbl |-> SetRetryCount(tbl, key, retryCount + 1)]
    ELSE [res |-> Result(TRUE, 0, "nil"), tbl |-> tbl]

\* HandleDeletionError counting a conflict as an attempt.
HandleDeletionError_CountsConflicts(tbl, key, err) ==
    IF err = "nil" THEN [res |-> EmptyResult, tbl |-> tbl]
    ELSE IF ClassifyError(err) = "Permanent" THEN [res |-> EmptyResult, tbl |-> tbl]
    ELSE IF ClassifyError(err) = "Transient" THEN
        LET retryCount == GetRetryCount(tbl, key)
        IN  IF retryCount >= maxRetryAttempts
            THEN [res |-> EmptyResult, tbl |-> tbl]
            ELSE [res |-> Result(FALSE, CalculateBackoff(retryCount), "nil"),
                  tbl |-> SetRetryCount(tbl, key, retryCount + 1)]
    ELSE [res |-> Result(TRUE, 0, "nil"),
          tbl |-> SetRetryCount(tbl, key, GetRetryCount(tbl, key) + 1)]

\* HandleDeletionError going on at the ceiling with the capped delay, as
\* HandleError does.
HandleDeletionError_RetriesAtCeiling(tbl, key, err) ==
    IF err = "nil" THEN [res |-> EmptyResult, tbl |-> tbl]
    ELSE IF ClassifyError(err) = "Permanent" THEN [res |-> EmptyResult, tbl |-> tbl]
    ELSE IF ClassifyError(err) = "Transient" THEN
        LET retryCount == GetRetryCount(tbl, key)
        IN  IF retryCount >= maxRetryAttempts
            THEN [res |-> Result(FALSE, maxRetryDelay, "nil"), tbl |-> tbl]
            ELSE [res |-> Result(FALSE, CalculateBackoff(retryCount), "nil"),
                  tbl |-> SetRetryCount(tbl, key, retryCount + 1)]
    ELSE [res |-> Result(TRUE, 0, "nil"), tbl |-> tbl]

HandleDeletionError(tbl, key, err) ==
    IF err = "nil" THEN [res |-> EmptyResult, tbl |-> tbl]
    ELSE IF ClassifyError(err) = "Permanent" THEN [res |-> EmptyResult, tbl |-> tbl]
    ELSE IF ClassifyError(err) = "Transient" THEN
        LET retryCount == GetRetryCount(tbl, key)
        IN  IF retryCount >= maxRetryAttempts
            THEN [res |-> EmptyResult, tbl |-> tbl]
            ELSE [res |-> Result(FALSE, CalculateBackoff(retryCount), "nil"),
                  tbl |-> SetRetryCount(tbl, key, retryCount + 1)]
    ELSE [res |-> Result(TRUE, 0, "nil"), tbl |-> tbl]

-----------------------------------------------------------------------------
(* pkg/awsclient *)

\* The failure injected into a reconcile: the call at `site` returns an
\* error of kind `kind`; no call fails when site = "none".
\* The value of a call, computed once: Only({body : x \in {call}}) is body with
\* x standing for the call's result.
Only(S) == CHOOSE x \in S : TRUE

NoFault == [site |-> "none", kind |-> "nil"]
Fails(fault, site) == fault.site = site

Ids(rem) == {a.id : a \in rem}
Min(S) == CHOOSE x \in S : \A y \in S : x <= y

isNotFoundError(err) ==
    err \in {"ResourceNotFoundException", "AssocNotFound", "NotFound"}

\* ListPodIdentityAssociations followed by the linear scan; the list is taken
\* in the order the associations were created.
findAssociationByServiceAccount(key, rem, fault, site) ==
    IF Fails(fault, site)
    THEN [err |-> fault.kind, id |-> 0, calls |-> <<"eks.List">>]
    ELSE LET match == {a \in rem : a.sa = key}
         IN  IF match = {}
             THEN [err |-> "AssocNotFound", id |-> 0, calls |-> <<"eks.List">>]
             ELSE [err |-> "nil", id |-> Min(Ids(match)), calls |-> <<"eks.List">>]

GetPodIdentityAssociation(key, mem, rem, fault) ==
    IF mem.id # 0
    THEN IF Fails(fault, "describe")
         THEN [err |-> fault.kind, id |-> 0, calls |-> <<"eks.Describe">>]
         ELSE IF mem.id \notin Ids(rem)
         THEN [err |-> "AssocNotFound", id |-> 0, calls |-> <<"eks.Describe">>]
         ELSE [err |-> "nil", id |-> mem.id, calls |-> <<"eks.Describe">>]
    ELSE findAssociationByServiceAccount(key, rem, fault, "list")

AssociationExists(key, mem, rem, fault) ==
    LET got == GetPodIdentityAssociation(key, mem, rem, fault)
    IN  IF got.err # "nil"
        THEN IF got.err \in {"AssocNotFound", "NotFound"}
             THEN [exists |-> FALSE, err |-> "nil", calls |-> got.calls]
             ELSE [exists |-> FALSE, err |-> got.err, calls |-> got.calls]
        ELSE [exists |-> TRUE, err |-> "nil", calls |-> got.calls]

\* The tag keys of CreatePodIdentityAssociationInput: the descriptive tags are
\* always attached, and "assume-role" is added with a target role.
Tags(assumeRoleArn) ==
    {"managed-by", "serviceaccount", "namespace", "base-role"}
        \cup (IF assumeRoleArn # "" THEN {"assume-role"} ELSE {})

CreatePodIdentityAssociation(key, mem, rem, nid, roleArn, assumeRoleArn, fault) ==
    IF Fails(fault, "create")
    THEN [err |-> fault.kind, id |-> 0, mem |-> mem, rem |-> rem, nid |-> nid,
          calls |-> <<"eks.Create">>]
    ELSE [err |-> "nil", id |-> nid,
          mem |-> [mem EXCEPT !.id = nid],
          rem |-> rem \cup {[id |-> nid, sa |-> key, role |-> roleArn,
                             target |-> assumeRoleArn,
                             tags |-> Tags(assumeRoleArn)]},
          nid |-> nid + 1,
          calls |-> <<"eks.Create">>]

\* UpdatePodIdentityAssociation never sending a target role.
UpdatePodIdentityAssociation_DropsTarget(key, mem, rem, roleArn, assumeRoleArn, fault) ==
    LET found == IF mem.id = 0
                 THEN findAssociationByServiceAccount(key, rem, fault, "resolve")
                 ELSE [err |-> "nil", id |-> mem.id, calls |-> <<>>]
    IN  IF found.err # "nil"
        THEN [err |-> found.err, id |-> 0, rem |-> rem, calls |-> found.calls]
        ELSE IF Fails(fault, "update")
        THEN [err |-> fault.kind, id |-> 0, rem |-> rem,
              calls |-> found.calls \o <<"eks.Update">>]
        ELSE IF found.id \notin Ids(rem)
        THEN [err |-> "ResourceNotFoundException", id |-> 0, rem |-> rem,
              calls |-> found.calls \o <<"eks.Update">>]
        ELSE [err |-> "nil", id |-> found.id,
              rem |-> {IF a.id = found.id THEN [a EXCEPT !.role = roleArn] ELSE a
                       : a \in rem},
              calls |-> found.calls \o <<"eks.Update">>]

\* UpdatePodIdentityAssociation that goes on to the update request, with an
\* empty id, when the scan found no association.
UpdatePodIdentityAssociation_IgnoresResolution(key, mem, rem, roleArn, assumeRoleArn, fault) ==
    LET found == IF mem.id = 0
                 THEN findAssociationByServiceAccount(key, rem, fault, "resolve")
                 ELSE [err |-> "nil", id |-> mem.id, calls |-> <<>>]
    IN  IF Fails(fault, "update")
        THEN [err |-> fault.kind, id |-> 0, rem |-> rem,
              calls |-> found.calls \o <<"eks.Update">>]
        ELSE IF found.id \notin Ids(rem)
        THEN [err |-> "ResourceNotFoundException", id |-> 0, rem |-> rem,
              calls |-> found.calls \o <<"eks.Update">>]
        ELSE [err |-> "nil", id |-> found.id,
              rem |-> {IF a.id = found.id
                       THEN [a EXCEPT !.role = roleArn,
                                      !.target = IF assumeRoleArn # ""
                                                 THEN assumeRoleArn ELSE @]
                       ELSE a : a \in rem},
              calls |-> found.calls \o <<"eks.Update">>]

\* The request carries TargetRoleArn only when assumeRoleArn is not empty; a
\* request without it leaves the association's target role as it is.
UpdatePodIdentityAssociation(key, mem, rem, roleArn, assumeRoleArn, fault) ==
    LET found == IF mem.id = 0
                 THEN findAssociationByServiceAccount(key, rem, fault, "resolve")
                 ELSE [err |-> "nil", id |-> mem.id, calls |-> <<>>]
    IN  IF found.err # "nil"
        THEN [err |-> found.err, id |-> 0, rem |-> rem, calls |-> found.calls]
        ELSE IF Fails(fault, "update")
        THEN [err |-> fault.kind, id |-> 0, rem |-> rem,
              calls |-> found.calls \o <<"eks.Update">>]
        ELSE IF found.id \notin Ids(rem)
        THEN [err |-> "ResourceNotFoundException", id |-> 0, rem |-> rem,
              calls |-> found.calls \o <<"eks.Update">>]
        ELSE [err |-> "nil", id |-> found.id,
              rem |-> {IF a.id = found.id
                       THEN [a EXCEPT !.role = roleArn,
                                      !.target = IF assumeRoleArn # ""
                                                 THEN assumeRoleArn ELSE @]
                       ELSE a : a \in rem},
              calls |-> found.calls \o <<"eks.Update">>]

\* DeletePodIdentityAssociation without the isNotFoundError checks: an
\* association that is already absent is an error.
DeletePodIdentityAssociation_NotIdempotent(key, mem, rem, fault) ==
    LET found == IF mem.id = 0
                 THEN findAssociationByServiceAccount(key, rem, fault, "resolve")
                 ELSE [err |-> "nil", id |-> mem.id, calls |-> <<>>]
        apiErr == IF Fails(fault, "delete") THEN fault.kind
                  ELSE IF found.id \notin Ids(rem) THEN "ResourceNotFoundException"
                  ELSE "nil"
    IN  IF found.err # "nil"
        THEN [err |-> found.err, rem |-> rem, calls |-> found.calls]
        ELSE IF apiErr # "nil"
        THEN [err |-> apiErr, rem |-> rem,
              calls |-> found.calls \o <<"eks.Delete">>]
        ELSE [err |-> "nil", rem |-> {a \in rem : a.id # found.id},
              calls |-> found.calls \o <<"eks.Delete">>]

\* The EKS API answers a delete of an id it does not hold with
\* ResourceNotFoundException.
DeletePodIdentityAssociation(key, mem, rem, fault) ==
    LET found == IF mem.id = 0
                 THEN findAssociationByServiceAccount(key, rem, fault, "resolve")
                 ELSE [err |-> "nil", id |-> mem.id, calls |-> <<>>]
        apiErr == IF Fails(fault, "delete") THEN fault.kind
                  ELSE IF found.id \notin Ids(rem) THEN "ResourceNotFoundException"
                  ELSE "nil"
    IN  IF found.err # "nil"
        THEN IF isNotFoundError(found.err)
             THEN [err |-> "nil", rem |-> rem, calls |-> found.calls]
             ELSE [err |-> found.err, rem |-> rem, calls |-> found.calls]
        ELSE IF apiErr # "nil"
        THEN IF isNotFoundError(apiErr)
             THEN [err |-> "nil", rem |-> rem,
                   calls |-> found.calls \o <<"eks.Delete">>]
             ELSE [err |-> apiErr, rem |-> rem,
                   calls |-> found.calls \o <<"eks.Delete">>]
        ELSE [err |-> "nil", rem |-> {a \in rem : a.id # found.id},
              calls |-> found.calls \o <<"eks.Delete">>]

-----------------------------------------------------------------------------
(* internal/controller *)

\* The object a Get returns for a name that no longer exists.
Gone == [exists |-> FALSE, deleting |-> FALSE, finalizer |-> FALSE,
         role |-> NoRole, assume |-> "", id |-> 0,
         tagging |-> NoTagging, other |-> FALSE, held |-> FALSE]

\* sa.Annotations == nil: the object carries no annotation at all.
AnnotationsNil(obj) ==
    /\ obj.role = NoRole /\ obj.assume = "" /\ obj.id = 0
    /\ obj.tagging = NoTagging /\ ~obj.other

\* An annotation that is present with the empty string for its value.  An
\* absent role annotation is NoRole, an absent assume-role annotation is "".
Empty == "empty"

\* annotations[key] and the second value of `_, ok := annotations[key]`: a key
\* the map does not hold reads as the empty string.
Value(v) == IF v \in {NoRole, "", Empty} THEN "" ELSE v
Has(v) == v \notin {NoRole, ""}

\* An event filter that passes every update, the engine's own writes included.
UpdateFunc_PassesEveryUpdate(old, new) == TRUE

\* The event filter of SetupWithManager.
UpdateFunc(old, new) ==
    Value(old.role) # Value(new.role) \/ Value(old.assume) # Value(new.assume)
CreateFunc(obj) == Has(obj.role) \/ Has(obj.assume) \/ obj.finalizer
DeleteFunc == FALSE
GenericFunc == FALSE

\* client.Update / K8sClient.UpdateServiceAccount: the whole in-memory object
\* replaces the persisted one.  An object marked for deletion disappears with
\* its last finalizer.
UpdateServiceAccount(cur, mem, fault, site) ==
    IF Fails(fault, site)
    THEN [err |-> fault.kind, sa |-> cur, ev |-> FALSE]
    ELSE [err |-> "nil",
          sa |-> IF mem.deleting /\ ~mem.finalizer /\ ~mem.held THEN Gone ELSE mem,
          ev |-> UpdateFunc(cur, mem)]

\* What one run of Reconcile leaves behind.
Outcome(branch, obj, rem, nid, tbl, res, calls, ev, marked) ==
    [branch |-> branch, sa |-> obj, rem |-> rem, nid |-> nid, tbl |-> tbl,
     res |-> res, calls |-> calls, ev |-> ev, marked |-> marked]

\* deletePodIdentityAssociation going on to strip the annotations and
\* reporting success although the delete call failed.
deletePodIdentityAssociation_IgnoresError(key, cur, rem, fault) ==
    LET d == DeletePodIdentityAssociation(key, cur, rem, fault)
        calls == <<"DeletePodIdentityAssociation">> \o d.calls
        mem == [cur EXCEPT !.assume = "", !.id = 0]
        w == UpdateServiceAccount(cur, mem, fault, "strip")
    IN  IF AnnotationsNil(cur)
        THEN [err |-> "nil", sa |-> cur, mem |-> cur, rem |-> d.rem,
              calls |-> calls, ev |-> FALSE]
        ELSE [err |-> w.err, sa |-> w.sa, mem |-> mem, rem |-> d.rem,
              calls |-> calls \o <<"k8s.Update.strip">>, ev |-> w.ev]

deletePodIdentityAssociation(key, cur, rem, fault) ==
    Only({
        LET calls == <<"DeletePodIdentityAssociation">> \o d.calls
            mem == [cur EXCEPT !.assume = "", !.id = 0]
        IN  IF d.err # "nil"
            THEN [err |-> d.err, sa |-> cur, mem |-> cur, rem |-> d.rem,
                  calls |-> calls, ev |-> FALSE]
            ELSE IF AnnotationsNil(cur)
            THEN [err |-> "nil", sa |-> cur, mem |-> cur, rem |-> d.rem,
                  calls |-> calls, ev |-> FALSE]
            ELSE Only({[err |-> w.err, sa |-> w.sa, mem |-> mem, rem |-> d.rem,
                        calls |-> calls \o <<"k8s.Update.strip">>, ev |-> w.ev] :
                       w \in {UpdateServiceAccount(cur, mem, fault, "strip")}})
        : d \in {DeletePodIdentityAssociation(key, cur, rem, fault)}})

\* handleDeletion that does not look for the finalizer before it deletes.
handleDeletion_IgnoresFinalizer(key, cur, rem, nid, tbl, fault, calls0) ==
    LET d == deletePodIdentityAssociation(key, cur, rem, fault)
        mem == [d.mem EXCEPT !.finalizer = FALSE]
        w == UpdateServiceAccount(d.sa, mem, fault, "remfin")
        calls == calls0 \o d.calls
    IN  IF d.err # "nil"
        THEN Outcome("deletion", d.sa, d.rem, nid,
                     HandleDeletionError(tbl, key, d.err).tbl,
                     HandleDeletionError(tbl, key, d.err).res,
                     calls, d.ev, FALSE)
        ELSE IF w.err # "nil"
        THEN Outcome("deletion", w.sa, d.rem, nid,
                     HandleDeletionError(tbl, key, w.err).tbl,
                     HandleDeletionError(tbl, key, w.err).res,
                     calls \o <<"k8s.Update.remfin">>, d.ev, FALSE)
        ELSE Outcome("deletion", w.sa, d.rem, nid, tbl, EmptyResult,
                     calls \o <<"k8s.Update.remfin">>, d.ev \/ w.ev, FALSE)

handleDeletion(key, cur, rem, nid, tbl, fault, calls0) ==
    IF cur.finalizer
    THEN Only({
         LET mem == [d.mem EXCEPT !.finalizer = FALSE]
             calls == calls0 \o d.calls
         IN  IF d.err # "nil"
             THEN Only({Outcome("deletion", d.sa, d.rem, nid, h.tbl, h.res,
                                calls, d.ev, FALSE) :
                        h \in {HandleDeletionError(tbl, key, d.err)}})
             ELSE Only({
                  IF w.err # "nil"
                  THEN Only({Outcome("deletion", w.sa, d.rem, nid, h.tbl, h.res,
                                     calls \o <<"k8s.Update.remfin">>, d.ev, FALSE) :
                             h \in {HandleDeletionError(tbl, key, w.err)}})
                  ELSE Outcome("deletion", w.sa, d.rem, nid, tbl, EmptyResult,
                               calls \o <<"k8s.Update.remfin">>, d.ev \/ w.ev, FALSE)
                  : w \in {UpdateServiceAccount(d.sa, mem, fault, "remfin")}})
         : d \in {deletePodIdentityAssociation(key, cur, rem, fault)}})
    ELSE Outcome("deletion", cur, rem, nid, tbl, EmptyResult, calls0, FALSE, FALSE)

\* cleanupPodIdentityAssociation that deletes the association and returns
\* without removing the finalizer.
cleanupPodIdentityAssociation_KeepsFinalizer(key, cur, rem, nid, tbl, fault, calls0) ==
    IF ~cur.finalizer
    THEN Outcome("cleanup", cur, rem, nid, tbl, EmptyResult, calls0, FALSE, FALSE)
    ELSE LET d == deletePodIdentityAssociation(key, cur, rem, fault)
             calls == calls0 \o d.calls
         IN  IF d.err # "nil"
             THEN Outcome("cleanup", d.sa, d.rem, nid,
                          HandleDeletionError(tbl, key, d.err).tbl,
                          HandleDeletionError(tbl, key, d.err).res,
                          calls, d.ev, FALSE)
             ELSE Outcome("cleanup", d.sa, d.rem, nid, ResetRetryCount(tbl, key),
                          EmptyResult, calls, d.ev, TRUE)

cleanupPodIdentityAssociation(key, cur, rem, nid, tbl, fault, calls0) ==
    IF ~cur.finalizer
    THEN Outcome("cleanup", cur, rem, nid, tbl, EmptyResult, calls0, FALSE, FALSE)
    ELSE Only({
         LET mem == [d.mem EXCEPT !.finalizer = FALSE]
             calls == calls0 \o d.calls
         IN  IF d.err # "nil"
             THEN Only({Outcome("cleanup", d.sa, d.rem, nid, h.tbl, h.res,
                                calls, d.ev, FALSE) :
                        h \in {HandleDeletionError(tbl, key, d.err)}})
             ELSE Only({
                  IF w.err # "nil"
                  THEN Only({Outcome("cleanup", w.sa, d.rem, nid, h.tbl, h.res,
                                     calls \o <<"k8s.Update.remfin">>, d.ev, FALSE) :
                             h \in {HandleDeletionError(tbl, key, w.err)}})
                  ELSE Outcome("cleanup", w.sa, d.rem, nid, ResetRetryCount(tbl, key),
                               EmptyResult, calls \o <<"k8s.Update.remfin">>,
                               d.ev \/ w.ev, TRUE)
                  : w \in {UpdateServiceAccount(d.sa, mem, fault, "remfin")}})
         : d \in {deletePodIdentityAssociation(key, cur, rem, fault)}})

\* [id, err, mem, rem, nid, tbl, calls]: the association id and error the
\* helper returns, and what it changed on the way.
createPodIdentityAssociation(key, mem, rem, nid, tbl, roleArn, assumeRoleArn, fault) ==
    Only({
        LET calls == <<"CreatePodIdentityAssociation">> \o c.calls
        IN  IF c.err # "nil"
            THEN Only({
                 IF h.res.Requeue \/ h.res.RequeueAfter > 0
                 THEN [id |-> 0, err |-> c.err, mem |-> c.mem, rem |-> c.rem,
                       nid |-> c.nid, tbl |-> h.tbl, calls |-> calls]
                 ELSE [id |-> c.id, err |-> "nil", mem |-> c.mem, rem |-> c.rem,
                       nid |-> c.nid, tbl |-> h.tbl, calls |-> calls]
                 : h \in {HandleError(tbl, key, c.err)}})
            ELSE [id |-> c.id, err |-> "nil", mem |-> c.mem, rem |-> c.rem,
                  nid |-> c.nid, tbl |-> tbl, calls |-> calls]
        : c \in {CreatePodIdentityAssociation(key, mem, rem, nid, roleArn,
                                              assumeRoleArn, fault)}})

updatePodIdentityAssociation(key, mem, rem, nid, tbl, roleArn, assumeRoleArn, fault) ==
    Only({
        LET calls == <<"UpdatePodIdentityAssociation">> \o u.calls
        IN  IF u.err # "nil"
            THEN Only({
                 IF h.res.Requeue \/ h.res.RequeueAfter > 0
                 THEN [id |-> 0, err |-> u.err, mem |-> mem, rem |-> u.rem,
                       nid |-> nid, tbl |-> h.tbl, calls |-> calls]
                 ELSE [id |-> u.id, err |-> "nil", mem |-> mem, rem |-> u.rem,
                       nid |-> nid, tbl |-> h.tbl, calls |-> calls]
                 : h \in {HandleError(tbl, key, u.err)}})
            ELSE [id |-> u.id, err |-> "nil", mem |-> mem, rem |-> u.rem,
                  nid |-> nid, tbl |-> tbl, calls |-> calls]
        : u \in {UpdatePodIdentityAssociation(key, mem, rem, roleArn,
                                              assumeRoleArn, fault)}})

\* reconcilePodIdentityAssociation creating whatever the existence check says.
reconcilePodIdentityAssociation_AlwaysCreates(key, cur, rem, nid, tbl, roleArn, assumeRoleArn, fault, calls0, ev0) ==
    LET e == AssociationExists(key, cur, rem, fault)
        calls1 == calls0 \o <<"AssociationExists">> \o e.calls
        o == createPodIdentityAssociation(key, cur, rem, nid, tbl, roleArn,
                                          assumeRoleArn, fault)
        calls2 == calls1 \o o.calls
        mem == [o.mem EXCEPT !.id = o.id]
        w == UpdateServiceAccount(cur, mem, fault, "writeback")
        calls3 == calls2 \o <<"k8s.Update.writeback">>
    IN  IF e.err # "nil"
        THEN Outcome("ensure", cur, rem, nid, HandleError(tbl, key, e.err).tbl,
                     HandleError(tbl, key, e.err).res, calls1, ev0, FALSE)
        ELSE IF o.err # "nil"
        THEN Outcome("ensure", cur, o.rem, o.nid, o.tbl,
                     Result(FALSE, 0, o.err), calls2, ev0, FALSE)
        ELSE IF o.id # 0
        THEN IF w.err # "nil"
             THEN Outcome("ensure", w.sa, o.rem, o.nid,
                          HandleError(o.tbl, key, w.err).tbl,
                          HandleError(o.tbl, key, w.err).res, calls3, ev0, FALSE)
             ELSE Outcome("ensure", w.sa, o.rem, o.nid, MarkSuccess(o.tbl, key),
                          EmptyResult, calls3, ev0 \/ w.ev, TRUE)
        ELSE Outcome("ensure", cur, o.rem, o.nid, MarkSuccess(o.tbl, key),
                     EmptyResult, calls2, ev0, TRUE)

\* reconcilePodIdentityAssociation taking a failed existence check for "no
\* association" and going on to create.
reconcilePodIdentityAssociation_IgnoresCheckError(key, cur, rem, nid, tbl, roleArn, assumeRoleArn, fault, calls0, ev0) ==
    LET e == AssociationExists(key, cur, rem, fault)
        calls1 == calls0 \o <<"AssociationExists">> \o e.calls
        o == IF e.exists
             THEN updatePodIdentityAssociation(key, cur, rem, nid, tbl, roleArn,
                                               assumeRoleArn, fault)
             ELSE createPodIdentityAssociation(key, cur, rem, nid, tbl, roleArn,
                                               assumeRoleArn, fault)
        calls2 == calls1 \o o.calls
        mem == [o.mem EXCEPT !.id = o.id]
        w == UpdateServiceAccount(cur, mem, fault, "writeback")
        calls3 == calls2 \o <<"k8s.Update.writeback">>
    IN  IF o.err # "nil"
        THEN Outcome("ensure", cur, o.rem, o.nid, o.tbl,
                     Result(FALSE, 0, o.err), calls2, ev0, FALSE)
        ELSE IF o.id # 0
        THEN IF w.err # "nil"
             THEN Outcome("ensure", w.sa, o.rem, o.nid,
                          HandleError(o.tbl, key, w.err).tbl,
                          HandleError(o.tbl, key, w.err).res, calls3, ev0, FALSE)
             ELSE Outcome("ensure", w.sa, o.rem, o.nid, MarkSuccess(o.tbl, key),
                          EmptyResult, calls3, ev0 \/ w.ev, TRUE)
        ELSE Outcome("ensure", cur, o.rem, o.nid, MarkSuccess(o.tbl, key),
                     EmptyResult, calls2, ev0, TRUE)

\* cur is the object as persisted when the helper starts (the finalizer
\* already written), which is also the in-memory object.
reconcilePodIdentityAssociation(key, cur, rem, nid, tbl, roleArn, assumeRoleArn, fault, calls0, ev0) ==
    Only({
        LET calls1 == calls0 \o <<"AssociationExists">> \o e.calls
        IN  IF e.err # "nil"
            THEN Only({Outcome("ensure", cur, rem, nid, h.tbl, h.res, calls1, ev0, FALSE) :
                       h \in {HandleError(tbl, key, e.err)}})
            ELSE Only({
                 LET calls2 == calls1 \o o.calls
                     mem == [o.mem EXCEPT !.id = o.id]
                     calls3 == calls2 \o <<"k8s.Update.writeback">>
                 IN  IF o.err # "nil"
                     THEN Outcome("ensure", cur, o.rem, o.nid, o.tbl,
                                  Result(FALSE, 0, o.err), calls2, ev0, FALSE)
                     ELSE IF o.id # 0
                     THEN Only({
                          IF w.err # "nil"
                          THEN Only({Outcome("ensure", w.sa, o.rem, o.nid, h.tbl,
                                             h.res, calls3, ev0, FALSE) :
                                     h \in {HandleError(o.tbl, key, w.err)}})
                          ELSE Outcome("ensure", w.sa, o.rem, o.nid,
                                       MarkSuccess(o.tbl, key), EmptyResult,
                                       calls3, ev0 \/ w.ev, TRUE)
                          : w \in {UpdateServiceAccount(cur, mem, fault, "writeback")}})
                     ELSE Outcome("ensure", cur, o.rem, o.nid, MarkSuccess(o.tbl, key),
                                  EmptyResult, calls2, ev0, TRUE)
                 : o \in {IF e.exists
                          THEN updatePodIdentityAssociation(key, cur, rem, nid, tbl,
                                                            roleArn, assumeRoleArn, fault)
                          ELSE createPodIdentityAssociation(key, cur, rem, nid, tbl,
                                                            roleArn, assumeRoleArn, fault)}})
        : e \in {AssociationExists(key, cur, rem, fault)}})

\* Reconcile going on to the association although the write of the finalizer
\* failed.
Reconcile_IgnoresFinalizerError(key, cur, rem, nid, tbl, fault) ==
    LET calls0 == <<"k8s.Get">>
        mem == [cur EXCEPT !.finalizer = TRUE]
        w == UpdateServiceAccount(cur, mem, fault, "addfin")
    IN  IF Fails(fault, "get")
        THEN Outcome("geterr", cur, rem, nid, tbl, Result(FALSE, 0, fault.kind),
                     calls0, FALSE, FALSE)
        ELSE IF ~cur.exists
        THEN Outcome("notfound", cur, rem, nid, tbl, EmptyResult, calls0, FALSE, FALSE)
        ELSE IF cur.deleting
        THEN handleDeletion(key, cur, rem, nid, tbl, fault, calls0)
        ELSE IF cur.role = NoRole
        THEN cleanupPodIdentityAssociation(key, cur, rem, nid, tbl, fault, calls0)
        ELSE IF ~cur.finalizer
        THEN reconcilePodIdentityAssociation(key, w.sa, rem, nid, tbl, cur.role,
                          cur.assume, fault, calls0 \o <<"k8s.Update.addfin">>, w.ev)
        ELSE reconcilePodIdentityAssociation(key, cur, rem, nid, tbl, cur.role,
                          cur.assume, fault, calls0, FALSE)

\* Reconcile that asks for another round when the object is gone.
Reconcile_RequeuesWhenGone(key, cur, rem, nid, tbl, fault) ==
    LET calls0 == <<"k8s.Get">>
        mem == [cur EXCEPT !.finalizer = TRUE]
        w == UpdateServiceAccount(cur, mem, fault, "addfin")
    IN  IF Fails(fault, "get")
        THEN Outcome("geterr", cur, rem, nid, tbl, Result(FALSE, 0, fault.kind),
                     calls0, FALSE, FALSE)
        ELSE IF ~cur.exists
        THEN Outcome("notfound", cur, rem, nid, tbl, Result(TRUE, 0, "nil"),
                     calls0, FALSE, FALSE)
        ELSE IF cur.deleting
        THEN handleDeletion(key, cur, rem, nid, tbl, fault, calls0)
        ELSE IF cur.role = NoRole
        THEN cleanupPodIdentityAssociation(key, cur, rem, nid, tbl, fault, calls0)
        ELSE IF ~cur.finalizer
        THEN IF w.err # "nil"
             THEN Outcome("ensure", cur, rem, nid, tbl, Result(FALSE, 0, w.err),
                          calls0 \o <<"k8s.Update.addfin">>, FALSE, FALSE)
             ELSE reconcilePodIdentityAssociation(key, w.sa, rem, nid, tbl, cur.role,
                          cur.assume, fault, calls0 \o <<"k8s.Update.addfin">>, w.ev)
        ELSE reconcilePodIdentityAssociation(key, cur, rem, nid, tbl, cur.role,
                          cur.assume, fault, calls0, FALSE)

\* Reconcile that hands a failed fetch to the error handler instead of
\* returning the error.
Reconcile_HandlesGetError(key, cur, rem, nid, tbl, fault) ==
    LET calls0 == <<"k8s.Get">>
        mem == [cur EXCEPT !.finalizer = TRUE]
        w == UpdateServiceAccount(cur, mem, fault, "addfin")
    IN  IF Fails(fault, "get")
        THEN Outcome("geterr", cur, rem, nid, HandleError(tbl, key, fault.kind).tbl,
                     HandleError(tbl, key, fault.kind).res, calls0, FALSE, FALSE)
        ELSE IF ~cur.exists
        THEN Outcome("notfound", cur, rem, nid, tbl, EmptyResult, calls0, FALSE, FALSE)
        ELSE IF cur.deleting
        THEN handleDeletion(key, cur, rem, nid, tbl, fault, calls0)
        ELSE IF cur.role = NoRole
        THEN cleanupPodIdentityAssociation(key, cur, rem, nid, tbl, fault, calls0)
        ELSE IF ~cur.finalizer
        THEN IF w.err # "nil"
             THEN Outcome("ensure", cur, rem, nid, tbl, Result(FALSE, 0, w.err),
                          calls0 \o <<"k8s.Update.addfin">>, FALSE, FALSE)
             ELSE reconcilePodIdentityAssociation(key, w.sa, rem, nid, tbl, cur.role,
                          cur.assume, fault, calls0 \o <<"k8s.Update.addfin">>, w.ev)
        ELSE reconcilePodIdentityAssociation(key, cur, rem, nid, tbl, cur.role,
                          cur.assume, fault, calls0, FALSE)

\* Reconcile that looks at the deletion timestamp only when the role
\* annotation is absent.
Reconcile_RoleBeforeDeletion(key, cur, rem, nid, tbl, fault) ==
    LET calls0 == <<"k8s.Get">>
        mem == [cur EXCEPT !.finalizer = TRUE]
        w == UpdateServiceAccount(cur, mem, fault, "addfin")
    IN  IF Fails(fault, "get")
        THEN Outcome("geterr", cur, rem, nid, tbl, Result(FALSE, 0, fault.kind),
                     calls0, FALSE, FALSE)
        ELSE IF ~cur.exists
        THEN Outcome("notfound", cur, rem, nid, tbl, EmptyResult, calls0, FALSE, FALSE)
        ELSE IF cur.role = NoRole
        THEN IF cur.deleting
             THEN handleDeletion(key, cur, rem, nid, tbl, fault, calls0)
             ELSE cleanupPodIdentityAssociation(key, cur, rem, nid, tbl, fault, calls0)
        ELSE IF ~cur.finalizer
        THEN IF w.err # "nil"
             THEN Outcome("ensure", cur, rem, nid, tbl, Result(FALSE, 0, w.err),
                          calls0 \o <<"k8s.Update.addfin">>, FALSE, FALSE)
             ELSE reconcilePodIdentityAssociation(key, w.sa, rem, nid, tbl, cur.role,
                          cur.assume, fault, calls0 \o <<"k8s.Update.addfin">>, w.ev)
        ELSE reconcilePodIdentityAssociation(key, cur, rem, nid, tbl, cur.role,
                          cur.assume, fault, calls0, FALSE)

\* Reconcile for the request `key`, on the cluster object cur.
Reconcile(key, cur, rem, nid, tbl, fault) ==
    LET calls0 == <<"k8s.Get">>
        mem == [cur EXCEPT !.finalizer = TRUE]
        w == UpdateServiceAccount(cur, mem, fault, "addfin")
    IN  IF Fails(fault, "get")
        THEN Outcome("geterr", cur, rem, nid, tbl, Result(FALSE, 0, fault.kind),
                     calls0, FALSE, FALSE)
        ELSE IF ~cur.exists
        THEN Outcome("notfound", cur, rem, nid, tbl, EmptyResult, calls0, FALSE, FALSE)
        ELSE IF cur.deleting
        THEN handleDeletion(key, cur, rem, nid, tbl, fault, calls0)
        ELSE IF cur.role = NoRole
        THEN cleanupPodIdentityAssociation(key, cur, rem, nid, tbl, fault, calls0)
        ELSE IF ~cur.finalizer
        THEN IF w.err # "nil"
             THEN Outcome("ensure", cur, rem, nid, tbl, Result(FALSE, 0, w.err),
                          calls0 \o <<"k8s.Update.addfin">>, FALSE, FALSE)
             ELSE reconcilePodIdentityAssociation(key, w.sa, rem, nid, tbl, cur.role,
                          cur.assume, fault, calls0 \o <<"k8s.Update.addfin">>, w.ev)
        ELSE reconcilePodIdentityAssociation(key, cur, rem, nid, tbl, cur.role,
                          cur.assume, fault, calls0, FALSE)

-----------------------------------------------------------------------------
(* The cluster, the dispatcher and the user *)

Sites == {"get", "addfin", "describe", "list", "resolve", "create", "update",
          "delete", "strip", "remfin", "writeback"}

\* The errors injected: one of each class ClassifyError tells apart, and one
\* it does not know.  Not-found is never injected: it follows from the state
\* of the cluster and of the EKS API.
InjectedErrs == {"Invalid", "Conflict", "Other"}
Faults == {NoFault} \cup [site : Sites, kind : InjectedErrs]

Idle == [run |-> FALSE, branch |-> "none", fault |-> NoFault, pre |-> Gone,
         preRem |-> {}, preCount |-> 0, res |-> EmptyResult, calls |-> <<>>,
         marked |-> FALSE, ev |-> FALSE]

Init ==
    /\ sa = Gone
    /\ remote = {ForeignAssociation}
    /\ nextId = 1
    /\ retryCounts = NewErrorHandler
    /\ queued = FALSE
    /\ last = Idle
    /\ NoWorkers

\* The dispatcher hands the trigger to Reconcile; the verdict decides whether
\* the key is queued again (an error, Requeue or RequeueAfter), and so does an
\* update event of the engine's own writes that passes the event filter.
ReconcileStep ==
    /\ queued
    /\ \E clean \in {Reconcile(SAKey, sa, remote, nextId, retryCounts, NoFault)} :
       \E fault \in Faults :
       \E o \in {Reconcile(SAKey, sa, remote, nextId, retryCounts, fault)} :
         /\ fault # NoFault => o # clean
         /\ o.nid <= MaxAssoc + 1
         /\ sa' = o.sa
         /\ remote' = o.rem
         /\ nextId' = o.nid
         /\ retryCounts' = o.tbl
         /\ queued' = (o.res.err # "nil" \/ o.res.Requeue
                       \/ o.res.RequeueAfter > 0 \/ o.ev)
         /\ last' = [run |-> TRUE, branch |-> o.branch, fault |-> fault,
                     pre |-> sa, preRem |-> remote,
                     preCount |-> retryCounts[SAKey], res |-> o.res,
                     calls |-> o.calls, marked |-> o.marked, ev |-> o.ev]
    /\ UNCHANGED cvars

UserCreate ==
    /\ ~sa.exists
    /\ \E r \in Roles \cup {NoRole}, a \in AssumeRoles :
         /\ sa' = [exists |-> TRUE, deleting |-> FALSE, finalizer |-> FALSE,
                   role |-> r, assume |-> a, id |-> 0,
                   tagging |-> NoTagging, other |-> FALSE, held |-> FALSE]
         /\ queued' = (queued \/ CreateFunc(sa'))
    /\ last' = Idle
    /\ UNCHANGED <<remote, nextId, retryCounts>>
    /\ UNCHANGED cvars

UserSetRole ==
    /\ sa.exists
    /\ \E r \in (Roles \cup {NoRole}) \ {sa.role} :
         /\ sa' = [sa EXCEPT !.role = r]
         /\ queued' = (queued \/ UpdateFunc(sa, sa'))
    /\ last' = Idle
    /\ UNCHANGED <<remote, nextId, retryCounts>>
    /\ UNCHANGED cvars

UserSetAssume ==
    /\ sa.exists
    /\ \E a \in AssumeRoles \ {sa.assume} :
         /\ sa' = [sa EXCEPT !.assume = a]
         /\ queued' = (queued \/ UpdateFunc(sa, sa'))
    /\ last' = Idle
    /\ UNCHANGED <<remote, nextId, retryCounts>>
    /\ UNCHANGED cvars

\* kubectl delete: with a finalizer the object only gets its deletion
\* timestamp (an update event), without one it is removed (a delete event).
UserDelete ==
    /\ sa.exists
    /\ ~sa.deleting
    /\ IF sa.finalizer \/ sa.held
       THEN /\ sa' = [sa EXCEPT !.deleting = TRUE]
            /\ queued' = (queued \/ UpdateFunc(sa, sa'))
       ELSE /\ sa' = Gone
            /\ queued' = (queued \/ DeleteFunc)
    /\ last' = Idle
    /\ UNCHANGED <<remote, nextId, retryCounts>>
    /\ UNCHANGED cvars

\* The operator process restarts: the retry table, held in memory, is empty
\* again, and the informer replays every existing object as a create event.
Restart ==
    /\ retryCounts' = NewErrorHandler
    /\ queued' = (sa.exists /\ CreateFunc(sa))
    /\ last' = Idle
    /\ UNCHANGED <<sa, remote, nextId>>
    /\ UNCHANGED cvars

Next ==
    \/ ReconcileStep
    \/ UserCreate
    \/ UserSetRole
    \/ UserSetAssume
    \/ UserDelete
    \/ Restart

Spec == Init /\ [][Next]_vars

(***************************************************************************)
(* The annotations the reconcile does not read.  A user edits the tagging  *)
(* annotation or an unrelated one; the event filter looks at the role and  *)
(* assume-role annotations only, so neither edit queues the key by itself. *)
(***************************************************************************)
UserSetTagging ==
    /\ sa.exists
    /\ \E t \in (TaggingValues \cup {NoTagging}) \ {sa.tagging} :
         /\ sa' = [sa EXCEPT !.tagging = t]
         /\ queued' = (queued \/ UpdateFunc(sa, sa'))
    /\ last' = Idle
    /\ UNCHANGED <<remote, nextId, retryCounts>>
    /\ UNCHANGED cvars

UserSetOther ==
    /\ sa.exists
    /\ sa' = [sa EXCEPT !.other = ~sa.other]
    /\ queued' = (queued \/ UpdateFunc(sa, sa'))
    /\ last' = Idle
    /\ UNCHANGED <<remote, nextId, retryCounts>>
    /\ UNCHANGED cvars

\* Another controller puts its own finalizer on the object (not while it is
\* being deleted) or takes it off; the object goes with its last finalizer.
UserSetHeld ==
    /\ sa.exists
    /\ sa.held \/ ~sa.deleting
    /\ sa' = IF sa.held /\ sa.deleting /\ ~sa.finalizer
             THEN Gone
             ELSE [sa EXCEPT !.held = ~sa.held]
    /\ queued' = (queued \/ (sa'.exists /\ UpdateFunc(sa, sa')))
    /\ last' = Idle
    /\ UNCHANGED <<remote, nextId, retryCounts>>
    /\ UNCHANGED cvars

\* A reconcile in which every call to the cluster and to EKS succeeds.
ReconcileCleanStep ==
    /\ queued
    /\ \E o \in {Reconcile(SAKey, sa, remote, nextId, retryCounts, NoFault)} :
         /\ o.nid <= MaxAssoc + 1
         /\ sa' = o.sa
         /\ remote' = o.rem
         /\ nextId' = o.nid
         /\ retryCounts' = o.tbl
         /\ queued' = (o.res.err # "nil" \/ o.res.Requeue
                       \/ o.res.RequeueAfter > 0 \/ o.ev)
         /\ last' = [run |-> TRUE, branch |-> o.branch, fault |-> NoFault,
                     pre |-> sa, preRem |-> remote,
                     preCount |-> retryCounts[SAKey], res |-> o.res,
                     calls |-> o.calls, marked |-> o.marked, ev |-> o.ev]
    /\ UNCHANGED cvars

\* The operator has been running for a while: an earlier life of the object
\* may have left its association behind, and failures may have raised the
\* counters.
LeftBehind == [id |-> 1, sa |-> SAKey, role |-> "A", target |-> "", tags |-> Tags("")]

InitAnn ==
    /\ sa = Gone
    /\ \E orphan \in BOOLEAN :
         /\ remote = {ForeignAssociation} \cup (IF orphan THEN {LeftBehind} ELSE {})
         /\ nextId = IF orphan THEN 2 ELSE 1
    /\ retryCounts \in {[k \in Keys |-> n] : n \in {0, 2}}
    /\ queued = FALSE
    /\ last = Idle
    /\ NoWorkers

NextAnn ==
    \/ ReconcileCleanStep
    \/ UserCreate
    \/ UserSetRole
    \/ UserSetAssume
    \/ UserSetTagging
    \/ UserSetOther
    \/ UserSetHeld
    \/ UserDelete

SpecAnn == InitAnn /\ [][NextAnn]_vars

-----------------------------------------------------------------------------
(* The error handler on its own: its exported methods applied, in any      *)
(* order, to a retry table that holds any counts up to MaxRetryCount and   *)
(* to every error ClassifyError tells apart.  `last` records the call: the *)
(* method in branch, the error in fault.kind, the count of the object      *)
(* before the call (for CalculateBackoff: its argument) in preCount, and   *)
(* the returned result in res.                                             *)

HandlerCall(method, err, count, res) ==
    [Idle EXCEPT !.run = TRUE, !.branch = method,
                 !.fault = [site |-> "handler", kind |-> err],
                 !.preCount = count, !.res = res]

InitEH ==
    /\ sa = Gone
    /\ remote = {ForeignAssociation}
    /\ nextId = 1
    /\ retryCounts \in [Keys -> 0..MaxRetryCount]
    /\ queued = FALSE
    /\ last = Idle
    /\ NoWorkers

HandleErrorStep ==
    /\ \E err \in ErrKinds \cup {"nil"} :
       \E h \in {HandleError(retryCounts, SAKey, err)} :
         /\ retryCounts' = h.tbl
         /\ last' = HandlerCall("HandleError", err, retryCounts[SAKey], h.res)
    /\ UNCHANGED <<sa, remote, nextId, queued>>
    /\ UNCHANGED cvars

HandleDeletionErrorStep ==
    /\ \E err \in ErrKinds \cup {"nil"} :
       \E h \in {HandleDeletionError(retryCounts, SAKey, err)} :
         /\ retryCounts' = h.tbl
         /\ last' = HandlerCall("HandleDeletionError", err, retryCounts[SAKey], h.res)
    /\ UNCHANGED <<sa, remote, nextId, queued>>
    /\ UNCHANGED cvars

CalculateBackoffStep ==
    /\ \E n \in 0..MaxRetryCount :
         last' = HandlerCall("CalculateBackoff", "nil", n,
                             Result(FALSE, CalculateBackoff(n), "nil"))
    /\ UNCHANGED <<sa, remote, nextId, retryCounts, queued>>
    /\ UNCHANGED cvars

\* SetRetryCount and MarkSuccess for either object; fault.site names the key.
SetRetryCountStep ==
    /\ \E k \in Keys, n \in 0..MaxRetryCount :
         /\ retryCounts' = SetRetryCount(retryCounts, k, n)
         /\ last' = [HandlerCall("SetRetryCount", "nil", retryCounts[SAKey],
                                 EmptyResult) EXCEPT !.fault.site = k]
    /\ UNCHANGED <<sa, remote, nextId, queued>>
    /\ UNCHANGED cvars

MarkSuccessStep ==
    /\ \E k \in Keys :
         /\ retryCounts' = MarkSuccess(retryCounts, k)
         /\ last' = [HandlerCall("MarkSuccess", "nil", retryCounts[SAKey],
                                 EmptyResult) EXCEPT !.fault.site = k]
    /\ UNCHANGED <<sa, remote, nextId, queued>>
    /\ UNCHANGED cvars

\* The handler is built anew (the operator restarts).
NewErrorHandlerStep ==
    /\ retryCounts' = NewErrorHandler
    /\ last' = HandlerCall("NewErrorHandler", "nil", retryCounts[SAKey], EmptyResult)
    /\ UNCHANGED <<sa, remote, nextId, queued>>
    /\ UNCHANGED cvars

NextEH ==
    \/ NewErrorHandlerStep
    \/ HandleErrorStep
    \/ HandleDeletionErrorStep
    \/ CalculateBackoffStep
    \/ SetRetryCountStep
    \/ MarkSuccessStep

SpecEH == InitEH /\ [][NextEH]_vars

-----------------------------------------------------------------------------
(***************************************************************************)
(* The update call on its own.  The object holds the finalizer and the     *)
(* role annotation, with or without a cached association id; the EKS API   *)
(* holds any set of associations for it, which someone besides the         *)
(* operator may also remove.  `last` records the call: the returned error  *)
(* in res.err, the requests in calls.                                      *)
(***************************************************************************)
OwnAssociations ==
    {[id |-> i, sa |-> SAKey, role |-> "A", target |-> t, tags |-> Tags(t)] :
        i \in 1..MaxAssoc, t \in AssumeRoles}

InitClient ==
    /\ sa \in {[exists |-> TRUE, deleting |-> FALSE, finalizer |-> TRUE,
                role |-> r, assume |-> a, id |-> i,
                tagging |-> NoTagging, other |-> FALSE, held |-> FALSE] :
                  r \in Roles, a \in AssumeRoles, i \in 0..MaxAssoc}
    /\ remote \in {{ForeignAssociation} \cup S : S \in
                     {T \in SUBSET OwnAssociations :
                        \A x, y \in T : x.id = y.id => x = y}}
    /\ nextId = MaxAssoc + 1
    /\ retryCounts \in {[k \in Keys |-> IF k = SAKey THEN n ELSE 0] :
                          n \in 0..MaxRetryCount}
    /\ queued = FALSE
    /\ last = Idle
    /\ NoWorkers

UpdateCallStep ==
    /\ \E clean \in {updatePodIdentityAssociation(SAKey, sa, remote, nextId,
                      retryCounts, sa.role, sa.assume, NoFault)} :
       \E fault \in {NoFault} \cup [site : {"resolve", "update"}, kind : InjectedErrs] :
       \E o \in {updatePodIdentityAssociation(SAKey, sa, remote, nextId,
                  retryCounts, sa.role, sa.assume, fault)} :
      /\ fault # NoFault => o # clean
      /\ remote' = o.rem
      /\ retryCounts' = o.tbl
      /\ last' = [run |-> TRUE, branch |-> "update", fault |-> fault,
                  pre |-> sa, preRem |-> remote,
                  preCount |-> retryCounts[SAKey],
                  res |-> Result(FALSE, 0, o.err),
                  calls |-> o.calls, marked |-> FALSE, ev |-> FALSE]
      /\ UNCHANGED <<sa, nextId, queued>>
    /\ UNCHANGED cvars

\* Someone besides the operator deletes an association of the object.
AssociationRemoved ==
    /\ \E a \in {x \in remote : x.sa = SAKey} : remote' = remote \ {a}
    /\ last' = Idle
    /\ UNCHANGED <<sa, nextId, retryCounts, queued>>
    /\ UNCHANGED cvars

NextClient ==
    \/ UpdateCallStep
    \/ AssociationRemoved

SpecClient == InitClient /\ [][NextClient]_vars

-----------------------------------------------------------------------------
(***************************************************************************)
(* Workers side by side.  The dispatcher runs the reconciles of different  *)
(* keys concurrently; what they share is the reconciler's errorHandler     *)
(* field and the handler's retryCounts map, neither of them guarded.  A    *)
(* worker's reconcile is cut into its accesses to the two: the nil check   *)
(* of the field, the lazy construction, the call through the field, the    *)
(* read of the map (GetRetryCount) and the write (SetRetryCount), which    *)
(* the Go runtime does not do in one piece.  A reconcile ends either in    *)
(* HandleError for a Transient failure or in MarkSuccess.  An access to a  *)
(* map another worker is writing is a data race: the runtime may throw     *)
(* "concurrent map writes" and end the process, or not notice, and then    *)
(* the write may or may not survive.  hist.expect is the count each key    *)
(* has by the calls that returned for it.                                  *)
(***************************************************************************)
Table(eh, tbls) == IF eh = 0 THEN NewErrorHandler ELSE tbls[eh]

\* Another worker is inside a write of the map worker w is about to access.
Overlap(w) ==
    \E v \in Workers \ {w} : worker[v].pc = "writing" /\ worker[v].h = worker[w].h

Begin(w) ==
    /\ ~hist.fatal
    /\ worker[w].pc = "idle"
    /\ worker[w].left > 0
    /\ \E op \in {"HandleError", "MarkSuccess"} :
         worker' = [worker EXCEPT ![w].pc = "check", ![w].op = op,
                                  ![w].left = @ - 1]
    /\ UNCHANGED <<deleteFailures, settled, sa, remote, nextId, retryCounts, queued, last>>
    /\ UNCHANGED <<errorHandler, tables, hist>>

CheckHandler(w) ==
    /\ ~hist.fatal
    /\ worker[w].pc = "check"
    /\ worker' = [worker EXCEPT ![w].pc = IF errorHandler = 0 THEN "create"
                                          ELSE "call"]
    /\ UNCHANGED <<deleteFailures, settled, sa, remote, nextId, retryCounts, queued, last>>
    /\ UNCHANGED <<errorHandler, tables, hist>>

CreateHandler(w) ==
    /\ ~hist.fatal
    /\ worker[w].pc = "create"
    /\ tables' = Append(tables, NewErrorHandler)
    /\ errorHandler' = Len(tables) + 1
    /\ retryCounts' = Table(errorHandler', tables')
    /\ worker' = [worker EXCEPT ![w].pc = "call"]
    /\ UNCHANGED <<deleteFailures, settled, sa, remote, nextId, queued, last, hist>>

CallHandler(w) ==
    /\ ~hist.fatal
    /\ worker[w].pc = "call"
    /\ worker' = [worker EXCEPT ![w].h = errorHandler,
                                ![w].pc = IF worker[w].op = "HandleError"
                                          THEN "read" ELSE "write"]
    /\ UNCHANGED <<deleteFailures, settled, sa, remote, nextId, retryCounts, queued, last>>
    /\ UNCHANGED <<errorHandler, tables, hist>>

ReadCount(w) ==
    /\ ~hist.fatal
    /\ worker[w].pc = "read"
    /\ worker' = [worker EXCEPT
                    ![w].cnt = GetRetryCount(tables[worker[w].h], KeyOf[w]),
                    ![w].pc = "write"]
    /\ IF Overlap(w)
       THEN \E thrown \in BOOLEAN :
              hist' = [hist EXCEPT !.raced = TRUE, !.fatal = thrown]
       ELSE UNCHANGED hist
    /\ UNCHANGED <<deleteFailures, settled, sa, remote, nextId, retryCounts, queued, last>>
    /\ UNCHANGED <<errorHandler, tables>>

WriteBegin(w) ==
    /\ ~hist.fatal
    /\ worker[w].pc = "write"
    /\ IF Overlap(w)
       THEN /\ \E thrown \in BOOLEAN :
                 hist' = [hist EXCEPT !.raced = TRUE, !.fatal = thrown]
            /\ worker' = [v \in Workers |->
                            IF v = w
                            THEN [worker[v] EXCEPT !.pc = "writing", !.torn = TRUE]
                            ELSE IF worker[v].pc = "writing" /\ worker[v].h = worker[w].h
                            THEN [worker[v] EXCEPT !.torn = TRUE]
                            ELSE worker[v]]
       ELSE /\ worker' = [worker EXCEPT ![w].pc = "writing"]
            /\ UNCHANGED hist
    /\ UNCHANGED <<deleteFailures, settled, sa, remote, nextId, retryCounts, queued, last>>
    /\ UNCHANGED <<errorHandler, tables>>

WriteEnd(w) ==
    /\ ~hist.fatal
    /\ worker[w].pc = "writing"
    /\ LET key == KeyOf[w]
           tbl == tables[worker[w].h]
           new == IF worker[w].op = "HandleError"
                  THEN HandleError(SetRetryCount(tbl, key, worker[w].cnt),
                                   key, "Other").tbl[key]
                  ELSE MarkSuccess(tbl, key)[key]
       IN  /\ \E kept \in (IF worker[w].torn THEN BOOLEAN ELSE {TRUE}) :
                tables' = IF kept
                          THEN [tables EXCEPT ![worker[w].h][key] = new]
                          ELSE tables
           /\ hist' = [hist EXCEPT !.expect[key] =
                          IF worker[w].op = "HandleError" THEN @ + 1 ELSE 0]
    /\ retryCounts' = Table(errorHandler, tables')
    /\ worker' = [worker EXCEPT ![w].pc = "idle", ![w].op = "none",
                                ![w].cnt = 0, ![w].torn = FALSE]
    /\ UNCHANGED <<deleteFailures, settled, sa, remote, nextId, queued, last, errorHandler>>

InitWorkers == Init

NextWorkers ==
    \/ \E w \in Workers : Begin(w)
    \/ \E w \in Workers : CheckHandler(w)
    \/ \E w \in Workers : CreateHandler(w)
    \/ \E w \in Workers : CallHandler(w)
    \/ \E w \in Workers : ReadCount(w)
    \/ \E w \in Workers : WriteBegin(w)
    \/ \E w \in Workers : WriteEnd(w)

SpecWorkers == InitWorkers /\ [][NextWorkers]_vars

-----------------------------------------------------------------------------
(* Properties *)

\* The associations the EKS API holds for the managed ServiceAccount.
Matching(rem) == {a \in rem : a.sa = SAKey}

Called(name) == \E i \in DOMAIN last.calls : last.calls[i] = name
Count(name) == Cardinality({i \in DOMAIN last.calls : last.calls[i] = name})
\* The place of the first call `name` of the run, 0 when there is none.
First(name) ==
    IF Called(name) THEN Min({i \in DOMAIN last.calls : last.calls[i] = name}) ELSE 0

\* The error class of the injected failure, "none" when no call failed.
FaultClass == IF last.fault = NoFault THEN "none" ELSE ClassifyError(last.fault.kind)

\* C1: in every reachable state the EKS API holds at most one association
\* for any (namespace, serviceAccountName) pair.
C1_AtMostOneAssociation ==
    \A k \in Keys : Cardinality({a \in remote : a.sa = k}) <= 1

\* C2: when the association-id annotation is absent, or names an id that
\* describe-by-id reports as not found, while an association of the object
\* exists remotely, the reconcile of the object never issues a create.
C2_NoCreateWhileAssociationExists ==
    (/\ last.run
     /\ last.branch = "ensure"
     /\ last.pre.id = 0 \/ last.pre.id \notin Ids(last.preRem)
     /\ Matching(last.preRem) # {})
    => ~Called("eks.Create")

\* C3: a create or update is issued only after the finalizer has been
\* persisted on the object: a missing finalizer is written first, and when
\* that write fails the reconcile ends without any association call.
C3_FinalizerBeforeAssociation ==
    last.run =>
       /\ (Called("CreatePodIdentityAssociation") \/ Called("UpdatePodIdentityAssociation"))
            => /\ sa.finalizer
               /\ \/ last.pre.finalizer
                  \/ /\ last.fault.site # "addfin"
                     /\ 0 < First("k8s.Update.addfin")
                     /\ First("k8s.Update.addfin") < First("AssociationExists")
       /\ last.fault.site = "addfin"
            => /\ \A i \in DOMAIN last.calls :
                     last.calls[i] \in {"k8s.Get", "k8s.Update.addfin"}
               /\ sa = last.pre
               /\ remote = last.preRem

C3_Witness ==
    /\ last.run
    /\ ~last.pre.finalizer
    /\ Called("eks.Create")
    /\ sa.finalizer

\* The deletion or cleanup of the run got an error back from
\* deletePodIdentityAssociation.
DeleteFailed ==
    /\ last.branch \in {"deletion", "cleanup"}
    /\ last.fault.site \in {"resolve", "delete", "strip"}

\* C4: in the deletion branch, when the delete fails with a Permanent error,
\* or with a Transient error once the retry counter has reached the ceiling,
\* the finalizer is removed from the object anyway.
C4_FinalizerRemovedDespiteFailure ==
    (/\ last.run
     /\ last.branch = "deletion"
     /\ last.pre.finalizer
     /\ DeleteFailed
     /\ \/ FaultClass = "Permanent"
        \/ FaultClass = "Transient" /\ last.preCount >= maxRetryAttempts)
    => ~sa.finalizer

\* C5: deleting a ServiceAccount that carries the finalizer produces a watch
\* event that passes the event filter, so that a reconcile is triggered.
C5_DeletionTriggersReconcile ==
    [][(sa.exists /\ sa.finalizer /\ ~sa.deleting /\ sa'.deleting) => queued']_vars

CreateOrUpdateFailed ==
    /\ last.branch = "ensure"
    /\ last.fault.site \in {"create", "update", "resolve"}

C7_ThrottledCreate ==
    (/\ last.run
     /\ last.fault = [site |-> "create", kind |-> "Other"]
     /\ last.preCount = 0)
    => /\ last.res.err = "nil"
       /\ retryCounts[SAKey] = 1
       /\ last.res.RequeueAfter = baseRetryDelay

\* C8: for an object with the role annotation, a reconcile that ends with a
\* nil error and no requeue leaves the association-id annotation persisted
\* with a non-empty value.
C8_SuccessLeavesAssociationId ==
    (/\ last.run
     /\ last.branch = "ensure"
     /\ last.res = EmptyResult)
    => sa.id # 0

AssociationAbsent ==
    \/ last.pre.id = 0 /\ Matching(last.preRem) = {}
    \/ last.pre.id # 0 /\ last.pre.id \notin Ids(last.preRem)

\* C10: when the EKS API reports the association as already absent, on the
\* lookup by identity or on the delete by id, the delete completes with no
\* error (the reconcile goes on to its next write), and the reconcile removes
\* the finalizer.
C10_DeleteIdempotent ==
    (/\ last.run
     /\ last.branch \in {"deletion", "cleanup"}
     /\ last.pre.finalizer
     /\ AssociationAbsent
     /\ last.fault.site \in {"none", "strip", "remfin"})
    => /\ remote = last.preRem
       /\ Called(IF AnnotationsNil(last.pre) THEN "k8s.Update.remfin"
                 ELSE "k8s.Update.strip")
       /\ last.fault = NoFault => ~sa.finalizer /\ last.res = EmptyResult

C10_Witness ==
    /\ last.run
    /\ last.branch = "deletion"
    /\ last.pre.finalizer
    /\ last.pre.id # 0
    /\ last.pre.id \notin Ids(last.preRem)
    /\ Called("eks.Delete")
    /\ last.fault = NoFault
    /\ sa = Gone

\* The object owns an association: the EKS API holds one for its
\* (namespace, name).
OwnsAssociation == Matching(remote) # {}

\* The object is giving its association up: it is marked for deletion, or
\* its role annotation is gone, and it still holds the finalizer.
Relinquishing == sa.finalizer /\ (sa.deleting \/ sa.role = NoRole)

\* C11: in every state in which no reconcile of the object is pending, here
\* the states a reconcile without any failed call leaves behind, the object
\* holds the finalizer if and only if it owns an association or is giving
\* one up.
C11_FinalizerIffAssociation ==
    (sa.exists /\ ~queued /\ last.run /\ last.fault = NoFault)
    => (sa.finalizer <=> (OwnsAssociation \/ Relinquishing))

\* The reconcile did what its branch is for and no call failed: the
\* association was created or updated, or the finalizer was released.
Succeeded ==
    /\ last.run
    /\ last.fault = NoFault
    /\ last.res = EmptyResult
    /\ \/ last.branch = "ensure"
       \/ last.branch \in {"cleanup", "deletion"} /\ last.pre.finalizer

\* C12: the retry counter of the object does not decrease over a reconcile
\* that fails with a Transient error, and it is 0 right after every
\* successful reconcile: create or update, cleanup, deletion.
C12_RetryCounterResetOnSuccess ==
    /\ (last.run /\ FaultClass = "Transient") => retryCounts[SAKey] >= last.preCount
    /\ Succeeded => retryCounts[SAKey] = 0

\* The latest step is a call of `method` of the error handler with an error
\* of class `class`.
Handled(method, class) ==
    /\ last.run
    /\ last.branch = method
    /\ last.fault.kind # "nil"
    /\ ClassifyError(last.fault.kind) = class

\* C13: HandleError answers every Transient error with a delayed requeue and
\* a nil error: below the ceiling the delay is the backoff of the current
\* count and the count goes up by one, from the ceiling on the delay is the
\* maximum and the count stays.
C13_TransientAlwaysRequeued ==
    Handled("HandleError", "Transient") =>
        /\ last.res.err = "nil"
        /\ ~last.res.Requeue
        /\ last.res.RequeueAfter > 0
        /\ IF last.preCount < maxRetryAttempts
           THEN /\ last.res.RequeueAfter = CalculateBackoff(last.preCount)
                /\ retryCounts[SAKey] = last.preCount + 1
           ELSE /\ last.res.RequeueAfter = maxRetryDelay
                /\ retryCounts[SAKey] = last.preCount

C13_Witness ==
    /\ Handled("HandleError", "Transient")
    /\ last.preCount > maxRetryAttempts
    /\ last.res = Result(FALSE, maxRetryDelay, "nil")
    /\ retryCounts[SAKey] = last.preCount

\* C14: CalculateBackoff returns 30, 60, 120, 240, 300 seconds for the counts
\* 0 to 4 and 300 seconds for every larger count; it never decreases as the
\* count grows and stays between the base and the maximum delay.
C14_BackoffSequence ==
    (last.run /\ last.branch = "CalculateBackoff") =>
        /\ last.res.RequeueAfter =
              CASE last.preCount = 0 -> 30
                [] last.preCount = 1 -> 60
                [] last.preCount = 2 -> 120
                [] last.preCount = 3 -> 240
                [] OTHER -> 300
        /\ baseRetryDelay <= last.res.RequeueAfter
        /\ last.res.RequeueAfter <= maxRetryDelay
        /\ \A m \in 0..last.preCount : CalculateBackoff(m) <= last.res.RequeueAfter

C14_Witness ==
    /\ last.run
    /\ last.branch = "CalculateBackoff"
    /\ last.preCount = 4
    /\ last.res.RequeueAfter = 300

\* C15: HandleError and HandleDeletionError answer a Retryable error with an
\* immediate requeue, no delay and a nil error, and leave the retry count of
\* the object as it was.
C15_RetryableRequeuesAtOnce ==
    (Handled("HandleError", "Retryable") \/ Handled("HandleDeletionError", "Retryable")) =>
        /\ last.res = Result(TRUE, 0, "nil")
        /\ retryCounts[SAKey] = last.preCount

C15_Witness ==
    /\ Handled("HandleDeletionError", "Retryable")
    /\ last.fault.kind = "Conflict"
    /\ last.preCount = 3
    /\ last.res.Requeue
    /\ retryCounts[SAKey] = 3

\* C16: HandleError answers a Permanent error (not-found, invalid, bad
\* request) with an empty result and a nil error, and leaves the retry count
\* of the object as it was.
C16_PermanentDropped ==
    (/\ last.run
     /\ last.branch = "HandleError"
     /\ last.fault.kind \in {"NotFound", "Invalid", "BadRequest"})
    => /\ last.res = EmptyResult
       /\ retryCounts[SAKey] = last.preCount

C16_Witness ==
    /\ last.run
    /\ last.branch = "HandleError"
    /\ last.fault.kind = "BadRequest"
    /\ last.preCount = 2
    /\ last.res = EmptyResult
    /\ retryCounts[SAKey] = 2

\* C17: HandleDeletionError always returns a nil error; it schedules a retry
\* only for a Transient error below the ceiling (after the backoff, the
\* count going up by one) and for a Retryable error (at once); a Permanent
\* error, and a Transient error from the ceiling on, get an empty result.
C17_DeletionPolicy ==
    (last.run /\ last.branch = "HandleDeletionError") =>
        /\ last.res.err = "nil"
        /\ IF last.fault.kind = "nil" THEN last.res = EmptyResult
           ELSE IF Handled("HandleDeletionError", "Transient")
                   /\ last.preCount < maxRetryAttempts
           THEN /\ last.res = Result(FALSE, CalculateBackoff(last.preCount), "nil")
                /\ retryCounts[SAKey] = last.preCount + 1
           ELSE IF Handled("HandleDeletionError", "Retryable")
           THEN /\ last.res = Result(TRUE, 0, "nil")
                /\ retryCounts[SAKey] = last.preCount
           ELSE /\ last.res = EmptyResult
                /\ retryCounts[SAKey] = last.preCount

C17_Witness ==
    /\ Handled("HandleDeletionError", "Transient")
    /\ last.preCount = maxRetryAttempts
    /\ last.res = EmptyResult
    /\ retryCounts[SAKey] = maxRetryAttempts

\* What the existence check answers for the object the reconcile started
\* from: the cached id is looked up when there is one, the list otherwise.
ExistsReported ==
    IF last.pre.id # 0
    THEN last.pre.id \in Ids(last.preRem)
    ELSE Matching(last.preRem) # {}

\* C18: a reconcile of an object with the role annotation and no deletion
\* marker issues at most one lifecycle call and never a delete; once the
\* existence check has answered it issues exactly one: an update when the
\* association is reported to exist, a create when it is not.
C18_OneLifecycleCall ==
    (last.run /\ last.branch = "ensure") =>
        /\ Count("CreatePodIdentityAssociation") + Count("UpdatePodIdentityAssociation") <= 1
        /\ Count("eks.Create") + Count("eks.Update") <= 1
        /\ ~Called("DeletePodIdentityAssociation")
        /\ ~Called("eks.Delete")
        /\ (Called("AssociationExists") /\ last.fault.site \notin {"describe", "list"})
             => IF ExistsReported
                THEN /\ Count("UpdatePodIdentityAssociation") = 1
                     /\ ~Called("CreatePodIdentityAssociation")
                     /\ ~Called("eks.Create")
                ELSE /\ Count("CreatePodIdentityAssociation") = 1
                     /\ Count("eks.Create") = 1
                     /\ ~Called("UpdatePodIdentityAssociation")
                     /\ ~Called("eks.Update")

C18_Witness ==
    /\ last.run
    /\ last.branch = "ensure"
    /\ last.pre.id = 0
    /\ ExistsReported
    /\ Count("eks.Update") = 1
    /\ last.fault = NoFault

\* C19: after a reconcile of an object with the role annotation in which no
\* call failed and which ended with an empty result, the association whose
\* id the object caches has the role of the role annotation and the target
\* role of the assume-role annotation, no target role when the annotation is
\* absent.
C19_AssociationMatchesAnnotations ==
    (/\ last.run
     /\ last.branch = "ensure"
     /\ last.fault = NoFault
     /\ last.res = EmptyResult)
    => \E a \in Matching(remote) :
          /\ a.id = sa.id
          /\ a.role = sa.role
          /\ a.target = sa.assume

\* The object the reconcile started from caches the id of a live association
\* without a target role and carries the assume-role annotation "T".
GainedAssumeRole ==
    /\ last.run
    /\ last.branch = "ensure"
    /\ last.pre.id # 0
    /\ last.pre.assume = "T"
    /\ \E a \in last.preRem : a.id = last.pre.id /\ a.target = ""

\* C20: when an object whose association id is cached has gained an
\* assume-role annotation, the reconcile, once the existence check has
\* answered, issues exactly one update and no create; the update goes to the
\* cached id without any lookup by identity, and when it succeeds that
\* association, and no other, has the unchanged base role and the new target
\* role.
C20_UpdateByCachedId ==
    (GainedAssumeRole /\ last.fault.site # "describe") =>
        /\ Count("UpdatePodIdentityAssociation") = 1
        /\ Count("eks.Update") = 1
        /\ ~Called("eks.Create")
        /\ ~Called("eks.List")
        /\ last.fault.site # "update" =>
              remote = {IF a.id = last.pre.id
                        THEN [a EXCEPT !.role = last.pre.role, !.target = "T"]
                        ELSE a : a \in last.preRem}

C20_Witness ==
    /\ GainedAssumeRole
    /\ last.fault = NoFault
    /\ Count("eks.Update") = 1
    /\ \E a \in remote : a.id = sa.id /\ a.sa = SAKey /\ a.target = "T"

(***************************************************************************)
(* Tagging                                                                 *)
(***************************************************************************)
\* Tagging is on unless the tagging annotation reads exactly "false".
TaggingEnabled(obj) == obj.tagging # "false"

\* The associations the latest reconcile created.
Created == {a \in remote : a.id \notin Ids(last.preRem)}

\* C21: a create call carries the descriptive tag set exactly when tagging is
\* enabled, that is unless the object's tagging annotation is exactly "false",
\* and the request carries the object's role and target role either way.
C21_TagsFollowTaggingAnnotation ==
    (last.run /\ Called("eks.Create") /\ ~Fails(last.fault, "create")) =>
        \A a \in Created :
            /\ (a.tags # {}) <=> TaggingEnabled(last.pre)
            /\ a.role = last.pre.role
            /\ a.target = last.pre.assume

(***************************************************************************)
(* The fetch of the object                                                 *)
(***************************************************************************)
\* C22: a reconcile whose fetch reports not-found is terminal: it returns the
\* empty result and a nil error, calls nothing but the fetch (no EKS call, no
\* write to the cluster), and leaves the object, the associations and the
\* whole retry table as they were.
C22_NotFoundIsTerminal ==
    [][(last'.run /\ last'.branch = "notfound") =>
          /\ last'.res = EmptyResult
          /\ last'.calls = <<"k8s.Get">>
          /\ sa' = sa
          /\ remote' = remote
          /\ nextId' = nextId
          /\ retryCounts' = retryCounts]_vars

\* A not-found reconcile of a key whose counter a failed deletion had raised.
C22_Witness ==
    /\ last.run
    /\ last.branch = "notfound"
    /\ ~sa.exists
    /\ retryCounts[SAKey] > 0

\* C23: a reconcile whose fetch fails with an error other than not-found
\* returns that same error with the empty result, issues no EKS call and no
\* write, and leaves the object, the associations and the retry table alone.
C23_FetchErrorReturned ==
    (last.run /\ last.branch = "geterr") =>
        /\ last.fault.kind # "nil"
        /\ last.res = Result(FALSE, 0, last.fault.kind)
        /\ last.calls = <<"k8s.Get">>
        /\ sa = last.pre
        /\ remote = last.preRem
        /\ retryCounts[SAKey] = last.preCount

\* The fetch fails for an object that holds the finalizer and an association.
C23_Witness ==
    /\ last.run
    /\ last.branch = "geterr"
    /\ last.fault = [site |-> "get", kind |-> "Other"]
    /\ sa.exists /\ sa.finalizer
    /\ Matching(remote) # {}

(***************************************************************************)
(* Objects without the finalizer                                           *)
(***************************************************************************)
\* C24: for an object without the finalizer that carries the deletion marker
\* or lacks the role annotation, the reconcile is a no-op: the empty result
\* and a nil error, no delete or other EKS call and no write, and the object
\* (annotations and finalizers), the associations and the retry table are
\* unchanged.
C24_NoFinalizerNoOp ==
    [][(/\ last'.run
        /\ last'.branch \in {"deletion", "cleanup"}
        /\ ~last'.pre.finalizer) =>
          /\ last'.pre.deleting \/ last'.pre.role = NoRole
          /\ last'.res = EmptyResult
          /\ last'.calls = <<"k8s.Get">>
          /\ sa' = sa
          /\ remote' = remote
          /\ nextId' = nextId
          /\ retryCounts' = retryCounts]_vars

\* The deletion marker on an object that holds only a foreign finalizer, its
\* role annotation still in place, an association left behind and a raised
\* counter.
C24_Witness ==
    /\ last.run
    /\ last.branch = "deletion"
    /\ sa.deleting /\ ~sa.finalizer /\ sa.role # NoRole
    /\ Matching(remote) # {}
    /\ retryCounts[SAKey] > 0

\* The same for an object that merely lacks the role annotation.
C24_WitnessCleanup ==
    /\ last.run
    /\ last.branch = "cleanup"
    /\ ~sa.deleting /\ ~sa.finalizer /\ sa.assume # ""
    /\ Matching(remote) # {}

(***************************************************************************)
(* The annotations after a cleanup                                         *)
(***************************************************************************)
\* C25: a successful cleanup or deletion reconcile of an object that holds the
\* finalizer removes the assume-role, the association-id and the tagging
\* annotation and leaves every other annotation (the role annotation of an
\* object being deleted, an unrelated annotation) as it was.
C25_CleanupStripsAnnotations ==
    (/\ last.run
     /\ last.branch \in {"deletion", "cleanup"}
     /\ last.pre.finalizer
     /\ last.fault = NoFault
     /\ last.res = EmptyResult
     /\ sa.exists) =>
        /\ sa.assume = ""
        /\ sa.id = 0
        /\ sa.tagging = NoTagging
        /\ sa.role = last.pre.role
        /\ sa.other = last.pre.other

(***************************************************************************)
(* Update without a cached id                                              *)
(***************************************************************************)
\* C26: an update for an object without a cached association id first resolves
\* the association by list-and-scan; when no association matches, the update
\* fails with the resolution error, no update request reaches the API, the
\* associations are untouched, and the failure goes through the ordinary
\* policy: counted below the ceiling and still returned at the ceiling.
C26_UpdateResolvesByScan ==
    (last.run /\ last.branch = "update" /\ last.pre.id = 0) =>
        /\ First("eks.List") = 2
        /\ (last.fault = NoFault /\ Matching(last.preRem) = {}) =>
              /\ last.res.err = "AssocNotFound"
              /\ ~Called("eks.Update")
              /\ remote = last.preRem
              /\ retryCounts[SAKey] =
                     IF last.preCount < maxRetryAttempts
                     THEN last.preCount + 1 ELSE last.preCount

\* The update found nothing to resolve, with the counter at the ceiling.
C26_Witness ==
    /\ last.run
    /\ last.branch = "update"
    /\ last.pre.id = 0
    /\ last.fault = NoFault
    /\ Matching(last.preRem) = {}
    /\ last.preCount = maxRetryAttempts
    /\ last.res.err = "AssocNotFound"

(***************************************************************************)
(* The retry table                                                         *)
(***************************************************************************)
\* C27: the retry counters are kept per (namespace, name): in a new handler
\* every object's counter reads 0, and a call that increments, sets or resets
\* the counter of one object sets that counter only and leaves the counter of
\* every other object as it was.
C27_CountersPerKey ==
    [][/\ last'.branch = "NewErrorHandler" =>
            \A k \in Keys : GetRetryCount(retryCounts', k) = 0
       /\ last'.branch \in {"HandleError", "HandleDeletionError"} =>
            \A k \in Keys \ {SAKey} : retryCounts'[k] = retryCounts[k]
       /\ last'.branch \in {"SetRetryCount", "MarkSuccess"} =>
            \A k \in Keys \ {last'.fault.site} : retryCounts'[k] = retryCounts[k]
       /\ last'.branch = "MarkSuccess" => retryCounts'[last'.fault.site] = 0]_vars

\* A failure was counted for one object while the other's counter stands at
\* a different, positive value.
C27_Witness ==
    /\ last.run
    /\ last.branch = "HandleError"
    /\ retryCounts[SAKey] = last.preCount + 1
    /\ retryCounts[OtherKey] > 0
    /\ retryCounts[OtherKey] # retryCounts[SAKey]

(***************************************************************************)
(* The retry table under concurrent workers                                *)
(***************************************************************************)
\* No worker is inside a reconcile.
AllIdle == \A w \in Workers : worker[w].pc = "idle"

\* Every increment and reset that returned shows in the table the reconciler
\* holds.
C28_NoLostUpdate ==
    (AllIdle /\ ~hist.fatal) =>
        \A k \in Keys : GetRetryCount(retryCounts, k) = hist.expect[k]

\* No worker reads or writes a map while another worker writes it.
C28_NoUnsynchronisedAccess == ~hist.raced /\ ~hist.fatal

\* C28: when workers reconcile different keys concurrently, every retry-counter
\* increment and reset takes effect on the one shared table (no update is
\* lost) and the table is never accessed by one worker while another writes
\* it, also when the first reconciles run side by side and build the error
\* handler lazily.
C28_SharedTableSafe == C28_NoLostUpdate /\ C28_NoUnsynchronisedAccess

(***************************************************************************)
(* A failed existence check                                                *)
(***************************************************************************)
\* The existence check of the latest reconcile failed (describe-by-id or
\* list) with an error that is not a not-found.
CheckFailed ==
    /\ last.run
    /\ last.branch = "ensure"
    /\ last.fault.site \in {"describe", "list"}
    /\ ~isNotFoundError(last.fault.kind)

\* C29: when the existence check fails with an error other than not-found,
\* the reconcile issues neither a create nor an update, leaves the
\* associations alone and returns a nil error with the verdict of the
\* ordinary policy for the error's class; an error the classifier does not
\* know (Transient by default) gets a delayed requeue with a positive delay.
C29_CheckErrorHandled ==
    CheckFailed =>
        /\ ~Called("CreatePodIdentityAssociation") /\ ~Called("eks.Create")
        /\ ~Called("UpdatePodIdentityAssociation") /\ ~Called("eks.Update")
        /\ remote = last.preRem
        /\ last.res.err = "nil"
        /\ last.res = HandleError(SetRetryCount(retryCounts, SAKey, last.preCount),
                                  SAKey, last.fault.kind).res
        /\ ClassifyError(last.fault.kind) = "Permanent" => last.res = EmptyResult
        /\ ClassifyError(last.fault.kind) = "Retryable" =>
              last.res = Result(TRUE, 0, "nil")
        /\ last.fault.kind = "Other" =>
              /\ ~last.res.Requeue
              /\ last.res.RequeueAfter > 0
              /\ last.res.RequeueAfter <= maxRetryDelay

\* The describe of the cached id fails with an unclassified error when the
\* object's counter has reached the ceiling: requeued at the capped delay.
C29_Witness ==
    /\ CheckFailed
    /\ last.fault = [site |-> "describe", kind |-> "Other"]
    /\ last.preCount = maxRetryAttempts
    /\ last.res = Result(FALSE, maxRetryDelay, "nil")

(***************************************************************************)
(* Deletion before annotations                                             *)
(***************************************************************************)
\* C30: the deletion marker takes precedence over the role annotation: a
\* reconcile of an object that carries the deletion marker goes the deletion
\* way, never adds the finalizer and never issues a create or an update, also
\* when the role annotation is present.
C30_DeletionTakesPrecedence ==
    (last.run /\ last.pre.exists /\ last.pre.deleting /\ last.branch # "geterr") =>
        /\ last.branch = "deletion"
        /\ ~Called("k8s.Update.addfin")
        /\ sa.finalizer => last.pre.finalizer
        /\ ~Called("AssociationExists")
        /\ ~Called("CreatePodIdentityAssociation") /\ ~Called("eks.Create")
        /\ ~Called("UpdatePodIdentityAssociation") /\ ~Called("eks.Update")
        /\ \A a \in Matching(remote) : a \in last.preRem

\* A reconcile of an object marked for deletion that still has its role
\* annotation and holds only a foreign finalizer.
C30_Witness ==
    /\ last.run
    /\ last.branch = "deletion"
    /\ last.pre.deleting
    /\ last.pre.role # NoRole
    /\ ~last.pre.finalizer
    /\ sa.exists

-----------------------------------------------------------------------------
(* The event filter on its own: the informer delivers create, update,      *)
(* delete and generic events for every snapshot of the object, and the     *)
(* predicate functions of SetupWithManager decide whether the key is       *)
(* queued.  `last` records the event: the function asked in branch, the    *)
(* old object in pre and the verdict in ev; sa is the new object.          *)
FilterRoles == {NoRole, Empty, "A", "B"}
FilterAssumeRoles == {"", Empty, "T"}

Snapshots ==
    {[Gone EXCEPT !.exists = TRUE, !.role = r, !.assume = a, !.finalizer = f,
                  !.deleting = d] :
     r \in FilterRoles, a \in FilterAssumeRoles, f \in BOOLEAN, d \in BOOLEAN}

Event(func, old, verdict) ==
    [Idle EXCEPT !.branch = func, !.pre = old, !.ev = verdict]

InitFilter == Init

CreateEvent ==
    /\ ~sa.exists
    /\ \E obj \in Snapshots :
         /\ sa' = obj
         /\ last' = Event("CreateFunc", Gone, CreateFunc(obj))
         /\ queued' = CreateFunc(obj)
    /\ UNCHANGED <<remote, nextId, retryCounts>>
    /\ UNCHANGED cvars

UpdateEvent ==
    /\ sa.exists
    /\ \E new \in Snapshots :
         /\ sa' = new
         /\ last' = Event("UpdateFunc", sa, UpdateFunc(sa, new))
         /\ queued' = UpdateFunc(sa, new)
    /\ UNCHANGED <<remote, nextId, retryCounts>>
    /\ UNCHANGED cvars

DeleteEvent ==
    /\ sa.exists
    /\ sa' = Gone
    /\ last' = Event("DeleteFunc", sa, DeleteFunc)
    /\ queued' = DeleteFunc
    /\ UNCHANGED <<remote, nextId, retryCounts>>
    /\ UNCHANGED cvars

GenericEvent ==
    /\ sa.exists
    /\ last' = Event("GenericFunc", sa, GenericFunc)
    /\ queued' = GenericFunc
    /\ UNCHANGED <<sa, remote, nextId, retryCounts>>
    /\ UNCHANGED cvars

NextFilter ==
    \/ CreateEvent
    \/ UpdateEvent
    \/ DeleteEvent
    \/ GenericEvent

SpecFilter == InitFilter /\ [][NextFilter]_vars

\* C31, as far as the filter compares what it reads: an update event passes
\* exactly when the value read for the role annotation or for the assume-role
\* annotation (the empty string for an absent one) differs between the old and
\* the new object.
C31_UpdateComparesValues ==
    last.branch = "UpdateFunc" =>
        (last.ev <=> (\/ Value(last.pre.role) # Value(sa.role)
                      \/ Value(last.pre.assume) # Value(sa.assume)))

\* C31: the event filter passes an update event if and only if the role
\* annotation or the assume-role annotation differs between the old and the
\* new object, passes a create event if and only if the object has the role
\* annotation, the assume-role annotation or the finalizer, and never passes a
\* delete or a generic event.
C31_EventFilter ==
    /\ last.branch = "UpdateFunc" =>
         (last.ev <=> (last.pre.role # sa.role \/ last.pre.assume # sa.assume))
    /\ last.branch = "CreateFunc" =>
         (last.ev <=> (sa.role # NoRole \/ sa.assume # "" \/ sa.finalizer))
    /\ last.branch \in {"DeleteFunc", "GenericFunc"} => ~last.ev

\* The latest reconcile created an association and then failed to persist its
\* id on the object.
WriteBackFailed ==
    /\ last.run
    /\ last.branch = "ensure"
    /\ Called("eks.Create")
    /\ last.fault.site = "writeback"

\* C32: when a create succeeded remotely and persisting the association-id
\* annotation then failed, the next reconcile of the object issues no second
\* create and adds no association; no call of it failing, it finds the
\* association by list-and-scan and issues an update.
C32_NoSecondCreateAfterFailedWriteBack ==
    [][(WriteBackFailed /\ last'.run)
       => /\ ~Called("eks.Create")'
          /\ Ids(Matching(remote')) \subseteq Ids(Matching(remote))
          /\ last'.fault = NoFault
               => Called("eks.List")' /\ Called("eks.Update")']_vars

\* C32, for an object that carried no association-id annotation when the
\* write-back failed: the next reconcile scans the list, finds the association
\* and updates it.
C32_ScanAfterFailedWriteBack ==
    [][(WriteBackFailed /\ last.pre.id = 0 /\ last'.run)
       => /\ ~Called("eks.Create")'
          /\ Ids(Matching(remote')) \subseteq Ids(Matching(remote))
          /\ last'.fault = NoFault
               => Called("eks.List")' /\ Called("eks.Update")']_vars

\* C33: a reconcile in which the create or update call failed, whatever the
\* class of the error, does not mark the object as successful: MarkSuccess is
\* not called, a raised retry counter is not reset to 0, and the reconcile
\* does not end with the empty result and a nil error after reporting the
\* association ready.
C33_FailedCallNeverMarksSuccess ==
    (last.run /\ CreateOrUpdateFailed)
    => /\ ~last.marked
       /\ last.preCount > 0 => retryCounts[SAKey] > 0
       /\ ~(last.res = EmptyResult /\ last.marked)

\* C33, for the errors that are not Permanent: the reconcile returns the error
\* and leaves the retry counter as HandleError set it.
C33_RetriedFailureNeverMarksSuccess ==
    (last.run /\ CreateOrUpdateFailed /\ FaultClass # "Permanent")
    => /\ ~last.marked
       /\ last.preCount > 0 => retryCounts[SAKey] > 0
       /\ last.res.err = last.fault.kind

\* The reconcile took the finalizer off the object.
FinalizerRemoved == last.run /\ last.pre.finalizer /\ ~sa.finalizer

C34_WitnessFailedDelete ==
    /\ last.run
    /\ last.branch = "deletion"
    /\ last.fault.site = "delete"
    /\ last.pre.finalizer
    /\ sa.finalizer

\* C35: whenever a cleanup or deletion reconcile has removed the finalizer, the
\* EKS API holds no association for the object's (namespace, name), also when
\* the cached association id was stale and named another id than the live
\* association's.
C35_NoAssociationAfterFinalizerRemoval ==
    FinalizerRemoved => Matching(remote) = {}

\* C35, for an object whose cached id is absent or names its only live
\* association: the removal of the finalizer leaves no association behind.
C35_NoAssociationWithFreshId ==
    (/\ FinalizerRemoved
     /\ Cardinality(Matching(last.preRem)) <= 1
     /\ last.pre.id = 0 \/ last.pre.id \in Ids(Matching(last.preRem)))
    => Matching(remote) = {}

-----------------------------------------------------------------------------
(* The retry table as the reconciler drives it: starting empty, HandleError,  *)
(* HandleDeletionError, ResetRetryCount and MarkSuccess are called for      *)
(* either object with any error.  `last` records the call as under SpecEH,  *)
(* with the key in fault.site.                                              *)
InitRetry == Init

HandleErrorCall ==
    /\ \E k \in Keys, err \in ErrKinds \cup {"nil"} :
       \E h \in {HandleError(retryCounts, k, err)} :
         /\ retryCounts' = h.tbl
         /\ last' = [HandlerCall("HandleError", err, retryCounts[k], h.res)
                     EXCEPT !.fault.site = k]
    /\ UNCHANGED <<sa, remote, nextId, queued>>
    /\ UNCHANGED cvars

HandleDeletionErrorCall ==
    /\ \E k \in Keys, err \in ErrKinds \cup {"nil"} :
       \E h \in {HandleDeletionError(retryCounts, k, err)} :
         /\ retryCounts' = h.tbl
         /\ last' = [HandlerCall("HandleDeletionError", err, retryCounts[k], h.res)
                     EXCEPT !.fault.site = k]
    /\ UNCHANGED <<sa, remote, nextId, queued>>
    /\ UNCHANGED cvars

ResetRetryCountCall ==
    /\ \E k \in Keys :
         /\ retryCounts' = ResetRetryCount(retryCounts, k)
         /\ last' = [HandlerCall("ResetRetryCount", "nil", retryCounts[k], EmptyResult)
                     EXCEPT !.fault.site = k]
    /\ UNCHANGED <<sa, remote, nextId, queued>>
    /\ UNCHANGED cvars

MarkSuccessCall ==
    /\ \E k \in Keys :
         /\ retryCounts' = MarkSuccess(retryCounts, k)
         /\ last' = [HandlerCall("MarkSuccess", "nil", retryCounts[k], EmptyResult)
                     EXCEPT !.fault.site = k]
    /\ UNCHANGED <<sa, remote, nextId, queued>>
    /\ UNCHANGED cvars

NextRetry ==
    \/ HandleErrorCall
    \/ HandleDeletionErrorCall
    \/ ResetRetryCountCall
    \/ MarkSuccessCall

SpecRetry == InitRetry /\ [][NextRetry]_vars

\* C36: in every state reachable from an empty retry table through
\* HandleError, HandleDeletionError, ResetRetryCount and MarkSuccess, the retry
\* counter of each object lies between 0 and the attempt ceiling 5.
C36_CounterWithinCeiling ==
    \A k \in Keys : retryCounts[k] \in 0..maxRetryAttempts

\* A Transient failure handled at the ceiling: the counter stays at 5.
C36_Witness ==
    /\ last.branch = "HandleError"
    /\ ClassifyError(last.fault.kind) = "Transient"
    /\ last.preCount = maxRetryAttempts
    /\ retryCounts[last.fault.site] = maxRetryAttempts

-----------------------------------------------------------------------------
(* The retries of the deletion.  Calls fail with a Transient error only,   *)
(* and deleteFailures counts the failures of the delete itself (the lookup  *)
(* of the association or the delete request, in the deletion or cleanup     *)
(* branch), one past the ceiling at most.                                   *)
TransientFaults ==
    {NoFault} \cup [site : {"describe", "list", "resolve", "create", "update",
                            "delete"},
                    kind : {"Other"}]

DeleteFailedIn(o, fault) ==
    /\ o.branch \in {"deletion", "cleanup"}
    /\ fault.site \in {"resolve", "delete"}
    /\ ClassifyError(fault.kind) = "Transient"

InitDeletion == Init

ReconcileCountedStep ==
    /\ queued
    /\ \E clean \in {Reconcile(SAKey, sa, remote, nextId, retryCounts, NoFault)} :
       \E fault \in TransientFaults :
       \E o \in {Reconcile(SAKey, sa, remote, nextId, retryCounts, fault)} :
         /\ fault # NoFault => o # clean
         /\ o.nid <= MaxAssoc + 1
         /\ sa' = o.sa
         /\ remote' = o.rem
         /\ nextId' = o.nid
         /\ retryCounts' = o.tbl
         /\ queued' = (o.res.err # "nil" \/ o.res.Requeue
                       \/ o.res.RequeueAfter > 0 \/ o.ev)
         /\ last' = [run |-> TRUE, branch |-> o.branch, fault |-> fault,
                     pre |-> sa, preRem |-> remote,
                     preCount |-> retryCounts[SAKey], res |-> o.res,
                     calls |-> o.calls, marked |-> o.marked, ev |-> o.ev]
         /\ deleteFailures' = IF DeleteFailedIn(o, fault)
                                 /\ deleteFailures <= maxRetryAttempts
                              THEN deleteFailures + 1
                              ELSE deleteFailures
    /\ UNCHANGED <<errorHandler, tables, worker, hist, settled>>

NextDeletion ==
    \/ ReconcileCountedStep
    \/ UserCreate
    \/ UserSetRole
    \/ UserSetAssume
    \/ UserDelete

SpecDeletion == InitDeletion /\ [][NextDeletion]_vars

\* The delete of the latest reconcile, a deletion or a cleanup of an object
\* holding the finalizer, failed with a Transient error.
DeleteFailedTransiently ==
    /\ last.run
    /\ last.branch \in {"deletion", "cleanup"}
    /\ last.pre.finalizer
    /\ last.fault.site \in {"resolve", "delete"}
    /\ FaultClass = "Transient"

\* C37: a Transient failure of a delete in the deletion or cleanup branch is
\* retried with a delayed requeue unless the deletion of the object has itself
\* failed transiently 5 times already; failures counted earlier for the
\* create, the update or the existence check do not use up its retries.
C37_DeletionHasItsOwnRetries ==
    (DeleteFailedTransiently /\ deleteFailures <= maxRetryAttempts)
    => last.res.RequeueAfter > 0

\* C37, amended: a Transient failure of a delete in the deletion or cleanup
\* branch is retried with a delayed requeue unless the retry counter of the
\* object has reached 5; the counter is the one counter of the object, so the
\* Transient failures counted earlier for its create, update or existence
\* check, and not cleared by a success since, use up the deletion's retries.
C37_DeletionSharesRetryCounter ==
    DeleteFailedTransiently =>
        IF last.preCount < maxRetryAttempts
        THEN /\ last.res = Result(FALSE, CalculateBackoff(last.preCount), "nil")
             /\ last.res.RequeueAfter > 0
             /\ retryCounts[SAKey] = last.preCount + 1
        ELSE /\ last.res = EmptyResult
             /\ retryCounts[SAKey] = last.preCount

\* The first failure of the delete meets a counter that five failures of the
\* existence check or the create have raised to the ceiling: no retry.
C37_Witness ==
    /\ DeleteFailedTransiently
    /\ deleteFailures = 1
    /\ last.preCount = maxRetryAttempts
    /\ last.res = EmptyResult

\* The object is converged: it is not being deleted, it carries the role
\* annotation and the finalizer, its cached id names its one live association,
\* whose roles are the ones the annotations ask for, and no failure is counted
\* against it.
Converged(obj, rem, count) ==
    /\ obj.exists
    /\ ~obj.deleting
    /\ obj.role # NoRole
    /\ obj.finalizer
    /\ \E a \in rem :
         /\ Matching(rem) = {a}
         /\ a.id = obj.id
         /\ a.role = obj.role
         /\ obj.assume # "" => a.target = obj.assume
    /\ count = 0

-----------------------------------------------------------------------------
(* The long run.  The user edits and deletes and calls fail as under Spec,  *)
(* until the disturbance ends: from Settle on the user makes no change,    *)
(* no call fails, and the only steps are the reconciles the dispatcher     *)
(* still holds a trigger for.  The work queue of the dispatcher hands      *)
(* every queued key to Reconcile sooner or later, hence the weak fairness  *)
(* of the reconcile.                                                        *)
Settle ==
    /\ ~settled
    /\ nextId <= MaxAssoc
    /\ settled' = TRUE
    /\ last' = Idle
    /\ UNCHANGED <<sa, remote, nextId, retryCounts, queued>>
    /\ UNCHANGED <<errorHandler, tables, worker, hist, deleteFailures>>

SettledReconcile == settled /\ ReconcileCleanStep

InitQuiet == Init

NextQuiet ==
    \/ ~settled /\ ReconcileStep
    \/ ~settled /\ UserCreate
    \/ ~settled /\ UserSetRole
    \/ ~settled /\ UserSetAssume
    \/ ~settled /\ UserDelete
    \/ ~settled /\ Restart
    \/ Settle
    \/ SettledReconcile

SpecQuiet == InitQuiet /\ [][NextQuiet]_vars /\ WF_vars(SettledReconcile)

\* C39: with no further user change and a working remote API the system
\* quiesces: the engine's own writes queue only finitely many further
\* reconciles through the event filter, after which no trigger is pending
\* and none ever is again.
C39_Quiescence == [](settled => <>[](~queued))

\* A write of the engine itself (here the strip of the assume-role annotation)
\* passed the event filter and queued one more reconcile.
C39_Witness ==
    /\ settled
    /\ last.run
    /\ last.ev
    /\ queued

-----------------------------------------------------------------------------
(* Recovery.  The object is created with the role annotation, which stays; *)
(* it is not deleted; any call of a reconcile may fail with a Transient    *)
(* error, until the failures stop (Settle).  The dispatcher goes on handing *)
(* the queued key to Reconcile.                                             *)
AnyTransientFault == {NoFault} \cup [site : Sites, kind : {"Other"}]

TransientReconcile ==
    /\ ~settled
    /\ queued
    /\ \E clean \in {Reconcile(SAKey, sa, remote, nextId, retryCounts, NoFault)} :
       \E fault \in AnyTransientFault :
       \E o \in {Reconcile(SAKey, sa, remote, nextId, retryCounts, fault)} :
         /\ fault # NoFault => o # clean
         /\ o.nid <= MaxAssoc + 1
         /\ sa' = o.sa
         /\ remote' = o.rem
         /\ nextId' = o.nid
         /\ retryCounts' = o.tbl
         /\ queued' = (o.res.err # "nil" \/ o.res.Requeue
                       \/ o.res.RequeueAfter > 0 \/ o.ev)
         /\ last' = [run |-> TRUE, branch |-> o.branch, fault |-> fault,
                     pre |-> sa, preRem |-> remote,
                     preCount |-> retryCounts[SAKey], res |-> o.res,
                     calls |-> o.calls, marked |-> o.marked, ev |-> o.ev]
    /\ UNCHANGED cvars

UserCreateWithRole == ~settled /\ UserCreate /\ sa'.role # NoRole

InitFair == Init

NextFair ==
    \/ UserCreateWithRole
    \/ ~settled /\ UserSetAssume
    \/ TransientReconcile
    \/ Settle
    \/ SettledReconcile

SpecFair == InitFair /\ [][NextFair]_vars /\ WF_vars(SettledReconcile)

\* Exactly one association exists for the object, the association-id
\* annotation names it, and the retry counter is 0.
Recovered ==
    /\ \E a \in remote : Matching(remote) = {a} /\ sa.id = a.id
    /\ retryCounts[SAKey] = 0

\* C40: if the role annotation stays on an object that is not being deleted,
\* and calls fail only transiently and at last stop failing, then under fair
\* re-triggering the object reaches a state in which exactly one association
\* exists for it, the association-id annotation is that association's id and
\* the retry counter is back at 0.
C40_EventuallyRecovered == (settled /\ sa.exists) ~> Recovered

\* After the failures stopped, a reconcile found the association whose id an
\* earlier failed write-back had not persisted, updated it, wrote the id and
\* cleared a raised counter.
C40_Witness ==
    /\ settled
    /\ Recovered
    /\ last.run
    /\ last.preCount > 0
    /\ last.pre.id = 0
    /\ Called("eks.List")
    /\ Called("eks.Update")

====
